---- MODULE Spec2Model ----
(***************************************************************************)
(* A model of the jinko interpreter core: the lexical scope map            *)
(* (src/context/scope_map.rs), record instantiation                        *)
(* (src/instruction/type_instantiation.rs), field access                   *)
(* (src/instruction/field_access.rs), bare identifiers                     *)
(* (src/instruction/var_or_empty_type.rs), file inclusion                  *)
(* (src/instruction/incl.rs), interpreter directives                       *)
(* (src/instruction/jk_inst.rs) and the identifier token                   *)
(* (src/parser/tokens.rs).                                                 *)
(*                                                                         *)
(* Spec      drives a ScopeMap through its public methods.                 *)
(* SpecInst  drives a Context through type declarations, variable          *)
(*           bindings, TypeInstantiation.execute, FieldAccess.execute and  *)
(*           VarOrEmptyType.execute.                                       *)
(* SpecIncl  drives an Interpreter through Incl.execute over every file    *)
(*           system of a small family.                                     *)
(* SpecDir   turns calls into directives (JkInst::from_function_call) and  *)
(*           executes them between type declarations.                      *)
(* SpecTok   hands every text of a small family to Token::identifier.      *)
(***************************************************************************)
EXTENDS Integers, Sequences, FiniteSets, TLC

VARIABLES
    scopes,     \* ScopeMap.scopes: the scope stack, innermost scope first
    op,         \* the method or instruction that ran last
    ret,        \* what it returned
    panicked,   \* TRUE once an unwrap() on None has aborted the process
    errors,     \* Context.error_handler: the accumulated errors, oldest first
    instr,      \* the instruction given to the last execute
    trace,      \* the sub-steps the last execute performed, in order
    origin,     \* history: the assignment that bound the variable b
    path,       \* Interpreter.path: the source file being interpreted, if any
    files,      \* the file system: the regular files and what they hold
    included,   \* history: the files whose instructions an include has run
    exit_status, \* the status the process exited with, None while it runs
    cleared,    \* history: clear_errors emptied a buffer that held a field-count
                \* error, and nothing but the instruction at hand ran since
    balance,    \* history: the scope_enter calls minus the scope_exit calls
    chars       \* the text handed to the tokenizer, as code points

vars == <<scopes, op, ret, panicked, errors, instr, trace, origin,
          path, files, included, exit_status, cleared, balance, chars>>

(***************************************************************************)
(* Bounds of the model.                                                    *)
(***************************************************************************)
MaxDepth == 2       \* live scopes
MaxEntries == 3     \* bindings held by the whole scope stack
MaxFields == 2      \* field assignments written in one instantiation
MaxErrors == 1      \* errors held by the error buffer
MaxArgs == 2        \* arguments written in one interpreter directive
MaxLen == 5         \* characters of a text handed to the tokenizer

Names == {"a", "b"}

(***************************************************************************)
(* Values returned by methods.                                             *)
(***************************************************************************)
None == [tag |-> "None"]
Some(v) == [tag |-> "Some", v |-> v]
Unit == [tag |-> "Unit"]
Ok == [tag |-> "Ok"]
Error(kind, msg, name) == [tag |-> "Err", kind |-> kind, msg |-> msg, name |-> name]

(***************************************************************************)
(* Finite maps (HashMap<String, _>) are functions over a set of keys.      *)
(***************************************************************************)
EmptyMap == [k \in {} |-> None]
MapInsert(m, k, v) == [x \in (DOMAIN m) \cup {k} |-> IF x = k THEN v ELSE m[x]]
MapRemove(m, k) == [x \in (DOMAIN m) \ {k} |-> m[x]]
MapGet(m, k) == IF k \in DOMAIN m THEN Some(m[k]) ELSE None

(***************************************************************************)
(* Primitive values and their instances.                                   *)
(***************************************************************************)
IntWidth == 8

RECURSIVE LittleEndian(_, _)
LittleEndian(n, w) ==
    IF w = 0 THEN <<>> ELSE <<n % 256>> \o LittleEndian(n \div 256, w - 1)

DecArg(name, ty) == [name |-> name, ty |-> ty]
TypeDec(name, fields) == [name |-> name, fields |-> fields]
NoType == [name |-> "", fields |-> <<>>]
PrimitiveType(name) == TypeDec(name, <<>>)

ObjectInstance(ty, size, data, fields) ==
    [ty |-> ty, size |-> size, data |-> data, fields |-> fields]

JkInt(n) == ObjectInstance(PrimitiveType("int"), IntWidth, LittleEndian(n, IntWidth), None)
JkString(s) == ObjectInstance(PrimitiveType("string"), Len(s), s, None)

Var(name, instance) == [name |-> name, instance |-> instance]
FunctionDec(name, body) == [name |-> name, body |-> body]

(***************************************************************************)
(* Scope: three independent maps.                                          *)
(***************************************************************************)
ScopeNew == [variables |-> EmptyMap, functions |-> EmptyMap, types |-> EmptyMap]

ScopeGetVariable(scope, name) == MapGet(scope.variables, name)
ScopeGetFunction(scope, name) == MapGet(scope.functions, name)
ScopeGetType(scope, name) == MapGet(scope.types, name)

\* Each of these returns the pair <<scope afterwards, Result>>.
\* Mutation: insert() without the lookup, replacing an existing binding.
ScopeAddVariable_replace(scope, var) ==
    <<[scope EXCEPT !.variables = MapInsert(@, var.name, var)], Ok>>

ScopeAddVariable(scope, var) ==
    IF ScopeGetVariable(scope, var.name) # None
    THEN <<scope, Error("Context", "variable already declared", var.name)>>
    ELSE <<[scope EXCEPT !.variables = MapInsert(@, var.name, var)], Ok>>

ScopeRemoveVariable(scope, var) ==
    IF ScopeGetVariable(scope, var.name) # None
    THEN <<[scope EXCEPT !.variables = MapRemove(@, var.name)], Ok>>
    ELSE <<scope, Error("Context", "variable does not exist", var.name)>>

ScopeAddFunction(scope, func) ==
    IF ScopeGetFunction(scope, func.name) # None
    THEN <<scope, Error("Context", "function already declared", func.name)>>
    ELSE <<[scope EXCEPT !.functions = MapInsert(@, func.name, func)], Ok>>

\* Mutation: types and variables share one namespace.
ScopeAddType_shared(scope, type_dec) ==
    IF ScopeGetType(scope, type_dec.name) # None \/ ScopeGetVariable(scope, type_dec.name) # None
    THEN <<scope, Error("Context", "type already declared", type_dec.name)>>
    ELSE <<[scope EXCEPT !.types = MapInsert(@, type_dec.name, type_dec)], Ok>>

ScopeAddType(scope, type_dec) ==
    IF ScopeGetType(scope, type_dec.name) # None
    THEN <<scope, Error("Context", "type already declared", type_dec.name)>>
    ELSE <<[scope EXCEPT !.types = MapInsert(@, type_dec.name, type_dec)], Ok>>

(***************************************************************************)
(* ScopeMap: pure methods over the scope stack s (front = innermost).      *)
(***************************************************************************)
\* Mutation: the stack is walked from the outermost scope inwards.
RECURSIVE get_variable_outermost(_, _)
get_variable_outermost(s, name) ==
    IF s = <<>> THEN None
    ELSE IF ScopeGetVariable(s[Len(s)], name) # None
         THEN ScopeGetVariable(s[Len(s)], name)
         ELSE get_variable_outermost(SubSeq(s, 1, Len(s) - 1), name)

RECURSIVE get_variable(_, _)
get_variable(s, name) ==
    IF s = <<>> THEN None
    ELSE IF ScopeGetVariable(Head(s), name) # None
         THEN ScopeGetVariable(Head(s), name)
         ELSE get_variable(Tail(s), name)

RECURSIVE get_function(_, _)
get_function(s, name) ==
    IF s = <<>> THEN None
    ELSE IF ScopeGetFunction(Head(s), name) # None
         THEN ScopeGetFunction(Head(s), name)
         ELSE get_function(Tail(s), name)

RECURSIVE get_type(_, _)
get_type(s, name) ==
    IF s = <<>> THEN None
    ELSE IF ScopeGetType(Head(s), name) # None
         THEN ScopeGetType(Head(s), name)
         ELSE get_type(Tail(s), name)

\* front_mut() then the Scope method; <<stack afterwards, Result>>.
\* Mutation: back_mut() instead of front_mut().
MapAddVariable_back(s, var) ==
    IF s = <<>>
    THEN <<s, Error("Context", "Adding variable to empty scopemap", "")>>
    ELSE <<SubSeq(s, 1, Len(s) - 1) \o <<ScopeAddVariable(s[Len(s)], var)[1]>>,
           ScopeAddVariable(s[Len(s)], var)[2]>>

\* Mutation: with no live scope, a scope is entered for the variable.
MapAddVariable_enters(s, var) ==
    IF s = <<>>
    THEN <<<<ScopeAddVariable(ScopeNew, var)[1]>>, ScopeAddVariable(ScopeNew, var)[2]>>
    ELSE <<<<ScopeAddVariable(Head(s), var)[1]>> \o Tail(s), ScopeAddVariable(Head(s), var)[2]>>

MapAddVariable(s, var) ==
    IF s = <<>>
    THEN <<s, Error("Context", "Adding variable to empty scopemap", "")>>
    ELSE <<<<ScopeAddVariable(Head(s), var)[1]>> \o Tail(s), ScopeAddVariable(Head(s), var)[2]>>

\* Mutation: the variable is removed from the first scope that holds it.
RECURSIVE MapRemoveVariable_anywhere(_, _)
MapRemoveVariable_anywhere(s, var) ==
    IF s = <<>>
    THEN <<s, Error("Context", "Removing variable from empty scopemap", "")>>
    ELSE IF ScopeGetVariable(Head(s), var.name) # None \/ Tail(s) = <<>>
         THEN <<<<ScopeRemoveVariable(Head(s), var)[1]>> \o Tail(s),
                ScopeRemoveVariable(Head(s), var)[2]>>
         ELSE <<<<Head(s)>> \o MapRemoveVariable_anywhere(Tail(s), var)[1],
                MapRemoveVariable_anywhere(Tail(s), var)[2]>>

MapRemoveVariable(s, var) ==
    IF s = <<>>
    THEN <<s, Error("Context", "Removing variable from empty scopemap", "")>>
    ELSE <<<<ScopeRemoveVariable(Head(s), var)[1]>> \o Tail(s), ScopeRemoveVariable(Head(s), var)[2]>>

MapAddFunction(s, func) ==
    IF s = <<>>
    THEN <<s, Error("Context", "Adding function to empty scopemap", "")>>
    ELSE <<<<ScopeAddFunction(Head(s), func)[1]>> \o Tail(s), ScopeAddFunction(Head(s), func)[2]>>

MapAddType(s, custom_type) ==
    IF s = <<>>
    THEN <<s, Error("Context", "Adding new custom type to empty scopemap", "")>>
    ELSE <<<<ScopeAddType(Head(s), custom_type)[1]>> \o Tail(s), ScopeAddType(Head(s), custom_type)[2]>>

(***************************************************************************)
(* Inputs of the scope-map specification.                                  *)
(***************************************************************************)
VarInputs == {Var(n, JkInt(i)) : n \in Names, i \in {1, 2}}
FuncInputs == {FunctionDec(n, b) : n \in Names, b \in {1, 2}}
TypeInputs == {TypeDec(n, f) : n \in Names, f \in {<<>>, <<DecArg("x", "int")>>}}

RECURSIVE Entries(_)
Entries(s) ==
    IF s = <<>> THEN 0
    ELSE Cardinality(DOMAIN Head(s).variables) + Cardinality(DOMAIN Head(s).functions)
         + Cardinality(DOMAIN Head(s).types) + Entries(Tail(s))

NoInstr == [kind |-> "none"]
Apart ==
    UNCHANGED <<errors, instr, trace, origin, path, files, included, exit_status, cleared,
                chars>>
Idle == Apart /\ UNCHANGED balance

(***************************************************************************)
(* ScopeMap: the methods as actions.                                       *)
(***************************************************************************)
scope_enter ==
    /\ ~panicked
    /\ Len(scopes) < MaxDepth
    /\ scopes' = <<ScopeNew>> \o scopes
    /\ op' = "scope_enter"
    /\ ret' = Unit
    /\ balance' = balance + 1
    /\ UNCHANGED panicked
    /\ Apart

\* Mutation: pop_front() without the unwrap().
scope_exit_lenient ==
    /\ ~panicked
    /\ scopes' = IF scopes = <<>> THEN scopes ELSE Tail(scopes)
    /\ ret' = Unit
    /\ op' = "scope_exit"
    /\ balance' = balance - 1
    /\ UNCHANGED panicked
    /\ Apart

scope_exit ==
    /\ ~panicked
    /\ IF scopes = <<>>
       THEN /\ panicked' = TRUE
            /\ ret' = None
            /\ UNCHANGED <<scopes, balance>>
       ELSE /\ scopes' = Tail(scopes)
            /\ ret' = Unit
            /\ balance' = balance - 1
            /\ UNCHANGED panicked
    /\ op' = "scope_exit"
    /\ Apart

add_variable(var) ==
    /\ ~panicked
    /\ Entries(scopes) < MaxEntries
    /\ scopes' = MapAddVariable(scopes, var)[1]
    /\ ret' = MapAddVariable(scopes, var)[2]
    /\ op' = "add_variable"
    /\ UNCHANGED panicked
    /\ Idle

remove_variable(var) ==
    /\ ~panicked
    /\ scopes' = MapRemoveVariable(scopes, var)[1]
    /\ ret' = MapRemoveVariable(scopes, var)[2]
    /\ op' = "remove_variable"
    /\ UNCHANGED panicked
    /\ Idle

add_function(func) ==
    /\ ~panicked
    /\ Entries(scopes) < MaxEntries
    /\ scopes' = MapAddFunction(scopes, func)[1]
    /\ ret' = MapAddFunction(scopes, func)[2]
    /\ op' = "add_function"
    /\ UNCHANGED panicked
    /\ Idle

add_type(custom_type) ==
    /\ ~panicked
    /\ Entries(scopes) < MaxEntries
    /\ scopes' = MapAddType(scopes, custom_type)[1]
    /\ ret' = MapAddType(scopes, custom_type)[2]
    /\ op' = "add_type"
    /\ UNCHANGED panicked
    /\ Idle

\* ScopeMap::new()
Init ==
    /\ scopes = <<>>
    /\ op = "new"
    /\ ret = Unit
    /\ panicked = FALSE
    /\ errors = <<>>
    /\ instr = NoInstr
    /\ trace = <<>>
    /\ origin = NoInstr
    /\ path = None
    /\ files = EmptyMap
    /\ included = {}
    /\ exit_status = None
    /\ cleared = FALSE
    /\ balance = Len(scopes)
    /\ chars = <<>>

Next ==
    \/ scope_enter
    \/ scope_exit
    \/ \E var \in VarInputs : add_variable(var)
    \/ \E var \in VarInputs : remove_variable(var)
    \/ \E func \in FuncInputs : add_function(func)
    \/ \E custom_type \in TypeInputs : add_type(custom_type)

Spec == Init /\ [][Next]_vars

(***************************************************************************)
(* Instructions.  A constant, a variable lookup, a call of a function      *)
(* without a return value, a type instantiation and a field access.        *)
(***************************************************************************)
IntConst(n) == [kind |-> "int", value |-> n]
StringConst(text) == [kind |-> "string", text |-> text]
VarLookup(name) == [kind |-> "var", name |-> name]
VoidCall(name) == [kind |-> "call", name |-> name]
VarAssign(symbol, value) == [kind |-> "var_assign", symbol |-> symbol, value |-> value]
TypeInstantiation(type_name, fields) ==
    [kind |-> "type_inst", type_name |-> type_name, fields |-> fields]
FieldAccess(instance, field_name) ==
    [kind |-> "field_access", instance |-> instance, field_name |-> field_name]
VarOrEmptyType(symbol) == [kind |-> "var_or_empty_type", symbol |-> symbol]

\* The UTF-8 encoding of the string literals the model uses.
Utf8(text) == CASE text = "hi" -> <<104, 105>> [] text = "" -> <<>>

PrimitiveNames == {"int", "float", "bool", "char", "string"}
is_primitive(type_name) == type_name \in PrimitiveNames

\* print() of the expressions that can stand in a field assignment.
PrintValue(e) ==
    CASE e.kind = "int" -> ToString(e.value)
      [] e.kind = "string" -> "\"" \o e.text \o "\""
      [] e.kind = "var" -> e.name
      [] e.kind = "call" -> e.name \o "()"

PrintVarAssign(arg) == arg.symbol \o " = " \o PrintValue(arg.value)

RECURSIVE PrintArgs(_, _)
PrintArgs(fields, k) ==
    IF k > Len(fields) THEN ""
    ELSE (IF k = 1 THEN "" ELSE ", ") \o PrintVarAssign(fields[k]) \o PrintArgs(fields, k + 1)

PrintTypeInstantiation(ti) == ti.type_name \o "(" \o PrintArgs(ti.fields, 1) \o ")"

PrintInstruction(i) ==
    IF i.kind = "type_inst" THEN PrintTypeInstantiation(i) ELSE PrintValue(i)

PrintFieldAccess(fa) == PrintInstruction(fa.instance) \o "." \o fa.field_name

(***************************************************************************)
(* Context: the scope map, the error buffer and the record of the steps    *)
(* an execute performs.                                                    *)
(***************************************************************************)
Context(s, errs, tr) == [scopes |-> s, errors |-> errs, trace |-> tr]
CtxError(ctx, e) == [ctx EXCEPT !.errors = Append(@, e)]
CtxStep(ctx, ev) == [ctx EXCEPT !.trace = Append(@, ev)]
CtxGetType(ctx, type_name) == get_type(ctx.scopes, type_name)
CtxGetVariable(ctx, name) == get_variable(ctx.scopes, name)

Event(name) == [ev |-> name, k |-> 0]
FieldEvent(k) == [ev |-> "field", k |-> k]

CountError(name, expected, got) ==
    [tag |-> "Err", kind |-> "Interpreter",
     msg |-> "Wrong number of arguments for type instantiation",
     name |-> name, expected |-> expected, got |-> got]

(***************************************************************************)
(* ObjectInstance.                                                         *)
(***************************************************************************)
\* The field map of a list of (name, size) pairs: offsets are the running
\* total, a later pair of the same name replaces the earlier one.
RECURSIVE FieldsVecToMap(_, _, _, _)
FieldsVecToMap(vec, k, offset, map) ==
    IF k > Len(vec) THEN map
    ELSE FieldsVecToMap(vec, k + 1, offset + vec[k][2],
                        MapInsert(map, vec[k][1], <<offset, vec[k][2]>>))

ObjectInstanceNew(ty, size, data, fields) ==
    ObjectInstance(ty, size, data,
                   IF fields = None THEN None
                   ELSE Some(FieldsVecToMap(fields.v, 1, 0, EmptyMap)))

\* Ok(instance) of the field's bytes, or an error.
get_field(instance, field_name) ==
    IF instance.fields = None
    THEN Error("Context", "no fields on instance", field_name)
    ELSE IF field_name \notin DOMAIN instance.fields.v
         THEN Error("Context", "field does not exist on instance", field_name)
         ELSE LET span == instance.fields.v[field_name]
              IN  Some(ObjectInstance(NoType, span[2],
                       SubSeq(instance.data, span[1] + 1, span[1] + span[2]), None))

(***************************************************************************)
(* execute of the expressions that can stand in a field assignment.        *)
(* Every execute returns <<context afterwards, Option<ObjectInstance>>>.   *)
(***************************************************************************)
ExecuteConstant(ctx, e) ==
    IF e.kind = "int" THEN <<ctx, Some(JkInt(e.value))>>
    ELSE <<ctx, Some(JkString(Utf8(e.text)))>>

ExecuteVar(ctx, e) ==
    IF CtxGetVariable(ctx, e.name) = None
    THEN <<CtxError(ctx, Error("Context", "variable has not been declared", e.name)), None>>
    ELSE <<ctx, Some(CtxGetVariable(ctx, e.name).v.instance)>>

ExecuteVoidCall(ctx, e) == <<ctx, None>>

execute_expression(ctx, e) ==
    CASE e.kind \in {"int", "string"} -> ExecuteConstant(ctx, e)
      [] e.kind = "var" -> ExecuteVar(ctx, e)
      [] e.kind = "call" -> ExecuteVoidCall(ctx, e)

(***************************************************************************)
(* TypeInstantiation.                                                      *)
(***************************************************************************)
\* <<context afterwards, Option<TypeDec>>>
get_declaration(ctx, ti) ==
    IF CtxGetType(ctx, ti.type_name) # None
    THEN <<ctx, CtxGetType(ctx, ti.type_name)>>
    ELSE <<CtxError(ctx, Error("Interpreter", "Cannot find type", ti.type_name)), None>>

\* Variant: any number of fields up to the declared number is accepted.
check_fields_count_atmost(ti, type_dec) ==
    IF Len(ti.fields) <= Len(type_dec.fields)
    THEN Ok
    ELSE CountError(ti.type_name, Len(type_dec.fields), Len(ti.fields))

\* Variant: only an instantiation with fewer fields than declared is
\* accepted.
check_fields_count_fewer(ti, type_dec) ==
    IF Len(ti.fields) < Len(type_dec.fields)
    THEN Ok
    ELSE CountError(ti.type_name, Len(type_dec.fields), Len(ti.fields))

check_fields_count(ti, type_dec) ==
    IF Len(ti.fields) = Len(type_dec.fields)
    THEN Ok
    ELSE CountError(ti.type_name, Len(type_dec.fields), Len(ti.fields))

\* Variant: the primitive check lets every name through.
check_primitive_never(ti) == Ok

check_primitive(ti) ==
    IF is_primitive(ti.type_name)
    THEN Error("Interpreter", "cannot instantiate primitive type", ti.type_name)
    ELSE Ok

\* Variant: a field expression without a value is passed over and the
\* loop goes on with the next one.
RECURSIVE ExecuteFields_pass_over(_, _, _, _, _, _, _)
ExecuteFields_pass_over(ctx, ti, type_dec, k, size, data, fields) ==
    IF k > Len(ti.fields)
    THEN <<ctx, Some(ObjectInstanceNew(type_dec, size, data, Some(fields)))>>
    ELSE LET r == execute_expression(CtxStep(ctx, FieldEvent(k)), ti.fields[k].value)
         IN  IF r[2] = None
             THEN ExecuteFields_pass_over(r[1], ti, type_dec, k + 1, size, data, fields)
             ELSE ExecuteFields_pass_over(r[1], ti, type_dec, k + 1,
                                          size + r[2].v.size,
                                          data \o r[2].v.data,
                                          Append(fields, <<ti.fields[k].symbol, r[2].v.size>>))

\* The loop over the field assignments, from the k-th one on.
RECURSIVE ExecuteFields(_, _, _, _, _, _, _)
ExecuteFields(ctx, ti, type_dec, k, size, data, fields) ==
    IF k > Len(ti.fields)
    THEN <<ctx, Some(ObjectInstanceNew(type_dec, size, data, Some(fields)))>>
    ELSE LET r == execute_expression(CtxStep(ctx, FieldEvent(k)), ti.fields[k].value)
         IN  IF r[2] = None
             THEN <<r[1], None>>
             ELSE ExecuteFields(r[1], ti, type_dec, k + 1,
                                size + r[2].v.size,
                                data \o r[2].v.data,
                                Append(fields, <<ti.fields[k].symbol, r[2].v.size>>))

\* Variant: the declaration is looked up before the primitive check.
ExecuteTypeInstantiation_lookup_first(ctx, ti) ==
    LET d == get_declaration(CtxStep(ctx, Event("get_declaration")), ti)
        c2 == CtxStep(d[1], Event("check_primitive"))
        c3 == CtxStep(c2, Event("check_fields_count"))
    IN  IF d[2] = None
        THEN <<d[1], None>>
        ELSE IF check_primitive(ti) # Ok
             THEN <<CtxError(c2, check_primitive(ti)), None>>
             ELSE IF check_fields_count(ti, d[2].v) # Ok
                  THEN <<CtxError(c3, check_fields_count(ti, d[2].v)), None>>
                  ELSE ExecuteFields(c3, ti, d[2].v, 1, 0, <<>>, <<>>)

ExecuteTypeInstantiation(ctx, ti) ==
    LET c1 == CtxStep(ctx, Event("check_primitive"))
        d == get_declaration(CtxStep(c1, Event("get_declaration")), ti)
        c3 == CtxStep(d[1], Event("check_fields_count"))
    IN  IF check_primitive(ti) # Ok
        THEN <<CtxError(c1, check_primitive(ti)), None>>
        ELSE IF d[2] = None
             THEN <<d[1], None>>
             ELSE IF check_fields_count(ti, d[2].v) # Ok
                  THEN <<CtxError(c3, check_fields_count(ti, d[2].v)), None>>
                  ELSE ExecuteFields(c3, ti, d[2].v, 1, 0, <<>>, <<>>)

Execute(ctx, i) ==
    IF i.kind = "type_inst" THEN ExecuteTypeInstantiation(ctx, i)
    ELSE execute_expression(ctx, i)

(***************************************************************************)
(* FieldAccess.                                                            *)
(***************************************************************************)
\* Variant: a receiver without a value is passed over in silence.
ExecuteFieldAccess_silent(ctx, fa) ==
    LET r == Execute(CtxStep(ctx, Event("receiver")), fa.instance)
        c2 == CtxStep(r[1], Event("get_field"))
    IN  IF r[2] = None
        THEN <<r[1], None>>
        ELSE IF get_field(r[2].v, fa.field_name).tag = "Err"
             THEN <<CtxError(c2, get_field(r[2].v, fa.field_name)), None>>
             ELSE <<c2, get_field(r[2].v, fa.field_name)>>

ExecuteFieldAccess(ctx, fa) ==
    LET r == Execute(CtxStep(ctx, Event("receiver")), fa.instance)
        c2 == CtxStep(r[1], Event("get_field"))
    IN  IF r[2] = None
        THEN <<CtxError(r[1], Error("Context", "is a statement and cannot be accessed",
                                    PrintInstruction(fa.instance))), None>>
        ELSE IF get_field(r[2].v, fa.field_name).tag = "Err"
             THEN <<CtxError(c2, get_field(r[2].v, fa.field_name)), None>>
             ELSE <<c2, get_field(r[2].v, fa.field_name)>>

(***************************************************************************)
(* TypeDec and VarAssign: declarations into the innermost scope.           *)
(***************************************************************************)
ExecuteTypeDec(ctx, type_dec) ==
    IF MapAddType(ctx.scopes, type_dec)[2] = Ok
    THEN <<[ctx EXCEPT !.scopes = MapAddType(ctx.scopes, type_dec)[1]], None>>
    ELSE <<CtxError(ctx, MapAddType(ctx.scopes, type_dec)[2]), None>>

ExecuteVarAssign(ctx, va) ==
    LET r == Execute(ctx, va.value)
    IN  IF r[2] = None
        THEN <<CtxError(r[1], Error("Context", "cannot assign a statement", va.symbol)), None>>
        ELSE IF CtxGetVariable(r[1], va.symbol) # None
             THEN <<CtxError(r[1], Error("Context", "cannot assign to immutable variable",
                                         va.symbol)), None>>
             ELSE <<[r[1] EXCEPT !.scopes = MapAddVariable(r[1].scopes, Var(va.symbol, r[2].v))[1]],
                    None>>

(***************************************************************************)
(* VarOrEmptyType: a bare identifier, a variable or an empty record.       *)
(***************************************************************************)
\* Variant: a visible variable is preferred to a type of the same name.
ExecuteVarOrEmptyType_var_first(ctx, v) ==
    IF CtxGetVariable(ctx, v.symbol) # None
    THEN ExecuteVar(ctx, VarLookup(v.symbol))
    ELSE ExecuteTypeInstantiation(ctx, TypeInstantiation(v.symbol, <<>>))

ExecuteVarOrEmptyType(ctx, v) ==
    IF CtxGetType(ctx, v.symbol) # None
    THEN ExecuteTypeInstantiation(ctx, TypeInstantiation(v.symbol, <<>>))
    ELSE ExecuteVar(ctx, VarLookup(v.symbol))

\* The type checker's view of the same scopes.
get_custom_type(s, symbol) == get_type(s, symbol)
get_var(s, symbol) == get_variable(s, symbol)

\* Variant: a visible variable is preferred to a type of the same name.
resolve_kind_var_first(s, symbol) ==
    IF get_var(s, symbol) # None THEN "VarAccess"
    ELSE IF get_custom_type(s, symbol) # None THEN "EmptyTypeInst"
    ELSE "Unknown"

resolve_kind(s, symbol) ==
    IF get_custom_type(s, symbol) # None THEN "EmptyTypeInst"
    ELSE IF get_var(s, symbol) # None THEN "VarAccess"
    ELSE "Unknown"

(***************************************************************************)
(* Inputs of the interpreter specification.                                *)
(***************************************************************************)
RECURSIVE SeqsUpTo(_, _)
SeqsUpTo(S, n) ==
    IF n = 0 THEN {<<>>}
    ELSE SeqsUpTo(S, n - 1) \cup {Append(q, x) : q \in {q \in SeqsUpTo(S, n - 1) : Len(q) = n - 1}, x \in S}

FieldValues == {IntConst(1), StringConst("hi"), VarLookup("b")}
FieldAssigns == {VarAssign(n, e) : n \in Names, e \in FieldValues}
ConstAssigns == {VarAssign(n, e) : n \in Names, e \in {IntConst(1), StringConst("hi")}}
InstNames == {"T", "int"}
\* a = void(): a field whose expression is a statement.
StatementAssigns == {VarAssign("a", VoidCall("void")), VarAssign("b", IntConst(1))}
Instantiations ==
    {TypeInstantiation(t, f) : t \in InstNames, f \in SeqsUpTo(FieldAssigns, MaxFields)}
        \cup {TypeInstantiation("T", f) : f \in SeqsUpTo(StatementAssigns, MaxFields)}
Receivers ==
    {TypeInstantiation("T", f) : f \in SeqsUpTo(ConstAssigns, MaxFields)}
        \cup {VarLookup("b"), VoidCall("void")}
FieldAccesses == {FieldAccess(r, n) : r \in Receivers, n \in Names}
\* b = 1, or b = T { a = .., b = .. } with the fields named as T declares them,
\* or T = 1: a variable that is spelled like the type.
DeclaredOrder == <<"a", "b">>
Assignments ==
    {VarAssign("b", e) :
        e \in {TypeInstantiation("T", f) :
                  f \in {g \in SeqsUpTo(ConstAssigns, MaxFields) :
                            /\ Len(g) <= Len(DeclaredOrder)
                            /\ \A i \in 1..Len(g) : g[i].symbol = DeclaredOrder[i]}}
               \cup {IntConst(1)}}
        \cup {VarAssign("T", IntConst(1))}
Symbols == {"T", "b", "int"}
Declarations ==
    {TypeDec("T", <<>>),
     TypeDec("T", <<DecArg("a", "int")>>),
     TypeDec("T", <<DecArg("a", "int"), DecArg("b", "string")>>),
     TypeDec("int", <<DecArg("a", "int")>>)}

(***************************************************************************)
(* The interpreter: one action per executed top-level instruction.         *)
(***************************************************************************)
Run(name, i, r) ==
    /\ ~panicked
    /\ exit_status = None
    /\ op = "idle"
    /\ Len(errors) < MaxErrors
    /\ scopes' = r[1].scopes
    /\ errors' = r[1].errors
    /\ trace' = r[1].trace
    /\ ret' = r[2]
    /\ op' = name
    /\ instr' = i
    /\ origin' = IF name = "var_assign" /\ i.symbol = "b" /\ r[1].errors = errors
                 THEN i ELSE origin
    /\ cleared' = (cleared /\ name = "type_instantiation")
    /\ UNCHANGED <<panicked, path, files, included, exit_status, balance, chars>>

Here == Context(scopes, errors, <<>>)

type_dec_execute(type_dec) == Run("type_dec", type_dec, ExecuteTypeDec(Here, type_dec))

var_assign_execute(va) == Run("var_assign", va, ExecuteVarAssign(Here, va))

type_instantiation_execute(ti) ==
    Run("type_instantiation", ti, ExecuteTypeInstantiation(Here, ti))

field_access_execute(fa) == Run("field_access", fa, ExecuteFieldAccess(Here, fa))

var_or_empty_type_execute(v) ==
    Run("var_or_empty_type", v, ExecuteVarOrEmptyType(Here, v))

\* The driver goes on to the next top-level instruction.
next_instruction ==
    /\ ~panicked
    /\ exit_status = None
    /\ op # "idle"
    /\ op' = "idle"
    /\ ret' = Unit
    /\ instr' = NoInstr
    /\ trace' = <<>>
    /\ cleared' = FALSE
    /\ UNCHANGED <<scopes, errors, panicked, origin, path, files, included, exit_status,
                   balance, chars>>

clear_errors ==
    /\ ~panicked
    /\ op = "idle"
    /\ errors # <<>>
    /\ errors' = <<>>
    /\ cleared' = \E j \in 1..Len(errors) :
                      errors[j].msg = "Wrong number of arguments for type instantiation"
    /\ UNCHANGED <<scopes, op, ret, instr, trace, panicked, origin,
                   path, files, included, exit_status, balance, chars>>

\* Context::new(): the global scope is live and no error is recorded.
InitInst ==
    /\ scopes = <<ScopeNew>>
    /\ op = "idle"
    /\ ret = Unit
    /\ panicked = FALSE
    /\ errors = <<>>
    /\ instr = NoInstr
    /\ trace = <<>>
    /\ origin = NoInstr
    /\ path = None
    /\ files = EmptyMap
    /\ included = {}
    /\ exit_status = None
    /\ cleared = FALSE
    /\ balance = Len(scopes)
    /\ chars = <<>>

NextInst ==
    \/ \E type_dec \in Declarations : type_dec_execute(type_dec)
    \/ \E va \in Assignments : var_assign_execute(va)
    \/ \E ti \in Instantiations : type_instantiation_execute(ti)
    \/ \E fa \in FieldAccesses : field_access_execute(fa)
    \/ \E symbol \in Symbols : var_or_empty_type_execute(VarOrEmptyType(symbol))
    \/ next_instruction
    \/ clear_errors

SpecInst == InitInst /\ [][NextInst]_vars

(***************************************************************************)
(* Incl: the inclusion of another source file.  A path is the sequence of  *)
(* its components; a regular file is a path in the domain of the file      *)
(* system.                                                                 *)
(***************************************************************************)
Incl(name) == [kind |-> "incl", path |-> name]

DEFAULT_INCL == "lib.jk"

OkOf(v) == [tag |-> "Ok", v |-> v]

\* What a regular file holds: text that parses into instructions, text that
\* does not parse, or bytes that cannot be read as text.
Source(instructions) == [kind |-> "source", instructions |-> instructions]
Unparsable == [kind |-> "unparsable"]
Unreadable == [kind |-> "unreadable"]

Parent(p) == SubSeq(p, 1, Len(p) - 1)
is_file(fs, p) == p \in DOMAIN fs

PrintIncl(incl) == "incl " \o incl.path

\* <<dir_candidate, file_candidate>>
format_candidates(incl, base) ==
    <<base \o <<incl.path, DEFAULT_INCL>>, base \o <<incl.path \o ".jk">>>>

IncludeError(msg, candidates, incl) ==
    [tag |-> "Err", kind |-> "Interpreter", msg |-> msg,
     dir_candidate |-> candidates[1], file_candidate |-> candidates[2],
     name |-> PrintIncl(incl)]

\* Variant: when both candidates are files the directory's lib.jk is taken.
format_path_prefer_dir(fs, incl, base) ==
    LET c == format_candidates(incl, base)
    IN  IF is_file(fs, c[1]) THEN OkOf(c[1])
        ELSE IF is_file(fs, c[2]) THEN OkOf(c[2])
        ELSE IncludeError("no candidate for include", c, incl)

format_path(fs, incl, base) ==
    LET c == format_candidates(incl, base)
        dir_valid == is_file(fs, c[1])
        file_valid == is_file(fs, c[2])
    IN  CASE dir_valid /\ file_valid -> IncludeError("invalid include", c, incl)
          [] ~dir_valid /\ ~file_valid -> IncludeError("no candidate for include", c, incl)
          [] ~dir_valid /\ file_valid -> OkOf(c[2])
          [] dir_valid /\ ~file_valid -> OkOf(c[1])

read_to_string(fs, p) ==
    IF fs[p] = Unreadable THEN Error("Interpreter", "stream did not contain valid UTF-8", p)
    ELSE OkOf(fs[p])

many_instructions(input) ==
    IF input = Unparsable THEN Error("Parsing", "could not parse input", "")
    ELSE OkOf(input.instructions)

InclCtx(s, p, fs, tr) == [scopes |-> s, path |-> p, files |-> fs, trace |-> tr]
InclStep(ctx, e) == [ctx EXCEPT !.trace = Append(@, e)]
FinalPath(p) == [ev |-> "FINAL PATH", k |-> 0, path |-> p]
Including(i, p) == [ev |-> "INCLUDING", k |-> 0, instr |-> i, path |-> p]

\* <<context afterwards, Ok(<<path, instructions>>) or an error>>
inner_load(ctx, incl, base) ==
    LET formatted == format_path(ctx.files, incl, base)
        c1 == InclStep(ctx, FinalPath(formatted.v))
        input == read_to_string(ctx.files, formatted.v)
        instructions == many_instructions(input.v)
    IN  IF formatted.tag = "Err" THEN <<ctx, formatted>>
        ELSE IF input.tag = "Err" THEN <<c1, input>>
        ELSE IF instructions.tag = "Err" THEN <<c1, instructions>>
        ELSE <<c1, OkOf(<<formatted.v, instructions.v>>)>>

load(ctx, incl, base) == inner_load(ctx, incl, base)

\* execute of the instructions a file can hold, returning
\* <<context afterwards, Ok or an error>>.
ExecuteTypeDecResult(ctx, type_dec) ==
    LET r == MapAddType(ctx.scopes, type_dec)
    IN  IF r[2] = Ok THEN <<[ctx EXCEPT !.scopes = r[1]], Ok>> ELSE <<ctx, r[2]>>

ExecuteVarResult(ctx, e) ==
    IF get_variable(ctx.scopes, e.name) = None
    THEN <<ctx, Error("Interpreter", "variable has not been declared", e.name)>>
    ELSE <<ctx, Ok>>

RECURSIVE ExecuteIncl(_, _)
RECURSIVE ExecuteContent(_, _, _)
RECURSIVE ExecuteInstruction(_, _)

ExecuteInstruction(ctx, i) ==
    IF "kind" \notin DOMAIN i THEN ExecuteTypeDecResult(ctx, i)
    ELSE IF i.kind = "incl" THEN ExecuteIncl(ctx, i)
    ELSE ExecuteVarResult(ctx, i)

\* Variant: the instructions after a failing one are executed all the same.
ExecuteContent_keep_going(ctx, content, k) ==
    IF k > Len(content) THEN <<ctx, Ok>>
    ELSE LET r == ExecuteInstruction(InclStep(ctx, Including(content[k], ctx.path)),
                                     content[k])
             rest == ExecuteContent(r[1], content, k + 1)
         IN  IF r[2].tag = "Err" THEN <<rest[1], r[2]>>
             ELSE rest

\* content.into_iter().map(execute).collect(): from the k-th instruction on,
\* stopping at the first error.
ExecuteContent(ctx, content, k) ==
    IF k > Len(content) THEN <<ctx, Ok>>
    ELSE LET r == ExecuteInstruction(InclStep(ctx, Including(content[k], ctx.path)),
                                     content[k])
         IN  IF r[2].tag = "Err" THEN r
             ELSE ExecuteContent(r[1], content, k + 1)

\* Variant: the old path is taken out of the interpreter before the load,
\* and put back only after the instructions have run.
ExecuteIncl_takes_path(ctx, incl) ==
    LET base == IF ctx.path = None THEN <<>> ELSE Parent(ctx.path.v)
        old_path == ctx.path
        l == load(ctx, incl, base)
        r == ExecuteContent([l[1] EXCEPT !.path = Some(l[2].v[1])], l[2].v[2], 1)
    IN  IF l[2].tag = "Err" THEN <<[l[1] EXCEPT !.path = None], l[2]>>
        ELSE IF r[2].tag = "Err" THEN r
        ELSE <<[r[1] EXCEPT !.path = old_path], Ok>>

ExecuteIncl(ctx, incl) ==
    LET base == IF ctx.path = None THEN <<>> ELSE Parent(ctx.path.v)
        old_path == ctx.path
        l == load(ctx, incl, base)
        r == ExecuteContent([l[1] EXCEPT !.path = Some(l[2].v[1])], l[2].v[2], 1)
    IN  IF l[2].tag = "Err" THEN l
        ELSE IF r[2].tag = "Err" THEN r
        ELSE <<[r[1] EXCEPT !.path = old_path], Ok>>

(***************************************************************************)
(* Inputs of the include specification: the file systems.  m can be m.jk   *)
(* or m/lib.jk, and n can sit beside either of them.  The files for n      *)
(* include nothing, so that no file includes itself.                       *)
(***************************************************************************)
Absent == [kind |-> "absent"]
IncludeNames == {"m", "n"}
TopPaths == {<<"m.jk">>, <<"m", "lib.jk">>}
LeafPaths == {<<"n.jk">>, <<"n", "lib.jk">>, <<"m", "n.jk">>}
TopContents ==
    {Source(<<TypeDec("T", <<>>), TypeDec("U", <<>>)>>),
     Source(<<Incl("n"), TypeDec("T", <<>>)>>),
     Source(<<TypeDec("T", <<>>), VarLookup("x"), TypeDec("U", <<>>)>>),
     Unparsable,
     Unreadable}
LeafContents == {Source(<<TypeDec("U", <<>>)>>), Source(<<VarLookup("x")>>)}

Merge(f, g) == [p \in DOMAIN f \cup DOMAIN g |-> IF p \in DOMAIN f THEN f[p] ELSE g[p]]
Present(f) == [p \in {q \in DOMAIN f : f[q] # Absent} |-> f[p]]
FileSystems ==
    {Present(Merge(t, l)) : t \in [TopPaths -> TopContents \cup {Absent}],
                            l \in [LeafPaths -> LeafContents \cup {Absent}]}

\* The files whose instructions the trace shows running.
FilesRun(tr) == {tr[j].path.v : j \in {i \in 1..Len(tr) : tr[i].ev = "INCLUDING"}}

(***************************************************************************)
(* The interpreter executing includes, one action per top-level include.   *)
(***************************************************************************)
\* Variant: a file that an earlier include has run is not run again.
incl_execute_once(incl) ==
    LET full == ExecuteIncl(InclCtx(scopes, path, files, <<>>), incl)
        seen == /\ full[1].trace # <<>>
                /\ full[1].trace[1].path \in included
        r == IF seen THEN <<InclCtx(scopes, path, files, <<full[1].trace[1]>>), Ok>>
             ELSE full
    IN  /\ ~panicked
        /\ exit_status = None
        /\ scopes' = r[1].scopes
        /\ path' = r[1].path
        /\ trace' = r[1].trace
        /\ ret' = r[2]
        /\ op' = "incl"
        /\ instr' = incl
        /\ included' = included \cup FilesRun(r[1].trace)
        /\ UNCHANGED <<panicked, errors, origin, files, exit_status, cleared, balance, chars>>

incl_execute(incl) ==
    LET r == ExecuteIncl(InclCtx(scopes, path, files, <<>>), incl)
    IN  /\ ~panicked
        /\ exit_status = None
        /\ scopes' = r[1].scopes
        /\ path' = r[1].path
        /\ trace' = r[1].trace
        /\ ret' = r[2]
        /\ op' = "incl"
        /\ instr' = incl
        /\ included' = included \cup FilesRun(r[1].trace)
        /\ UNCHANGED <<panicked, errors, origin, files, exit_status, cleared, balance, chars>>

\* Interpreter::new(), started on a source file or without one.
InitIncl ==
    /\ scopes = <<ScopeNew>>
    /\ op = "idle"
    /\ ret = Unit
    /\ panicked = FALSE
    /\ errors = <<>>
    /\ instr = NoInstr
    /\ trace = <<>>
    /\ origin = NoInstr
    /\ path \in {None, Some(<<"main.jk">>)}
    /\ files \in FileSystems
    /\ included = {}
    /\ exit_status = None
    /\ cleared = FALSE
    /\ balance = Len(scopes)
    /\ chars = <<>>

NextIncl == \E name \in IncludeNames : incl_execute(Incl(name))

SpecIncl == InitIncl /\ [][NextIncl]_vars

(***************************************************************************)
(* JkInst: the interpreter directives @dump, @quit, @ir and @error.        *)
(***************************************************************************)
FunctionCall(fn_name, args) == [kind |-> "function_call", fn_name |-> fn_name, args |-> args]
JkInst(kind, args) == [kind |-> "jk_inst", inst |-> kind, args |-> args]

\* Variant: a name that is no directive is taken for dump.
from_function_call_default_dump(fc) ==
    CASE fc.fn_name = "quit" -> OkOf(JkInst("Quit", fc.args))
      [] fc.fn_name = "ir" -> OkOf(JkInst("Ir", fc.args))
      [] fc.fn_name = "error" -> OkOf(JkInst("Error", fc.args))
      [] OTHER -> OkOf(JkInst("Dump", fc.args))

from_function_call(fc) ==
    CASE fc.fn_name = "dump" -> OkOf(JkInst("Dump", fc.args))
      [] fc.fn_name = "quit" -> OkOf(JkInst("Quit", fc.args))
      [] fc.fn_name = "ir" -> OkOf(JkInst("Ir", fc.args))
      [] fc.fn_name = "error" -> OkOf(JkInst("Error", fc.args))
      [] OTHER -> Error("Parsing", "unknown interpreter directive @" \o fc.fn_name,
                        fc.fn_name)

PrintJkInst(inst) ==
    CASE inst.inst = "Dump" -> "@dump"
      [] inst.inst = "Quit" -> "@quit"
      [] inst.inst = "Ir" -> "@ir"
      [] inst.inst = "Error" -> "@error"

\* A line written on the standard output or on the diagnostic stream.
Println(text) == [ev |-> "println", k |-> 0, text |-> text]
Eprintln(text) == [ev |-> "eprintln", k |-> 0, text |-> text]
Debug(text) == [ev |-> "JINKO_INST", k |-> 0, text |-> text]
\* What the call of a function that never returns leaves as its result.
Exited == [tag |-> "Exited"]

\* The interpreter a directive acts on.
DirCtx(s, errs, tr, status) ==
    [scopes |-> s, errors |-> errs, trace |-> tr, exit_status |-> status]

\* self.args.iter().for_each(|arg| eprintln!("{}", arg.print())), from the
\* k-th argument on.
RECURSIVE PrintEachArg(_, _, _)
PrintEachArg(ctx, args, k) ==
    IF k > Len(args) THEN ctx
    ELSE PrintEachArg(CtxStep(ctx, Eprintln(PrintInstruction(args[k]))), args, k + 1)

\* Variant: the arguments are evaluated before they are printed.
RECURSIVE ExecuteEachArg(_, _, _)
ExecuteEachArg(ctx, args, k) ==
    IF k > Len(args) THEN ctx
    ELSE ExecuteEachArg(Execute(ctx, args[k])[1], args, k + 1)

ExecuteJkInst_runs_args(ctx, inst) ==
    LET c0 == CtxStep(ExecuteEachArg(ctx, inst.args, 1), Debug(PrintJkInst(inst)))
    IN  CASE inst.inst = "Dump" -> <<CtxStep(c0, Println(c0.scopes)), Ok>>
          [] inst.inst = "Quit" -> <<[c0 EXCEPT !.exit_status = Some(0)], Exited>>
          [] inst.inst = "Ir" -> <<CtxStep(c0, Eprintln("usage: Ir <statement|expr>")), Ok>>
          [] inst.inst = "Error" ->
                <<[PrintEachArg(c0, inst.args, 1) EXCEPT !.exit_status = Some(1)], Exited>>

ExecuteJkInst(ctx, inst) ==
    LET c0 == CtxStep(ctx, Debug(PrintJkInst(inst)))
    IN  CASE inst.inst = "Dump" -> <<CtxStep(c0, Println(c0.scopes)), Ok>>
          [] inst.inst = "Quit" -> <<[c0 EXCEPT !.exit_status = Some(0)], Exited>>
          [] inst.inst = "Ir" -> <<CtxStep(c0, Eprintln("usage: Ir <statement|expr>")), Ok>>
          [] inst.inst = "Error" ->
                <<[PrintEachArg(c0, inst.args, 1) EXCEPT !.exit_status = Some(1)], Exited>>

(***************************************************************************)
(* The interpreter reading directives: a call written after @ is turned    *)
(* into a directive and the directive is executed, between declarations.   *)
(***************************************************************************)
DirectiveNames == {"dump", "quit", "ir", "error", "tamer", "Quit", "errors", ""}
DirectiveArgs == {IntConst(1), VarLookup("b"), VoidCall("void")}
FunctionCalls ==
    {FunctionCall(n, a) : n \in DirectiveNames, a \in SeqsUpTo(DirectiveArgs, MaxArgs)}

jk_inst_from_function_call(fc) ==
    /\ ~panicked
    /\ exit_status = None
    /\ op = "idle"
    /\ op' = "from_function_call"
    /\ instr' = fc
    /\ ret' = from_function_call(fc)
    /\ trace' = <<>>
    /\ UNCHANGED <<scopes, errors, panicked, origin, path, files, included, exit_status,
                   cleared, balance, chars>>

jk_inst_execute ==
    LET r == ExecuteJkInst(DirCtx(scopes, errors, <<>>, exit_status), ret.v)
    IN  /\ ~panicked
        /\ exit_status = None
        /\ op = "from_function_call"
        /\ ret.tag = "Ok"
        /\ op' = "jk_inst"
        /\ instr' = ret.v
        /\ ret' = r[2]
        /\ scopes' = r[1].scopes
        /\ errors' = r[1].errors
        /\ trace' = r[1].trace
        /\ exit_status' = r[1].exit_status
        /\ UNCHANGED <<panicked, origin, path, files, included, cleared, balance, chars>>

NextDir ==
    \/ \E fc \in FunctionCalls : jk_inst_from_function_call(fc)
    \/ jk_inst_execute
    \/ \E type_dec \in Declarations : type_dec_execute(type_dec)
    \/ next_instruction

SpecDir == InitInst /\ [][NextDir]_vars

(***************************************************************************)
(* Properties of the scope map.                                            *)
(***************************************************************************)
Holders(s, kind, name) == {i \in 1..Len(s) : name \in DOMAIN s[i][kind]}
Least(S) == CHOOSE i \in S : \A j \in S : i <= j
InnermostBinding(s, kind, name) ==
    IF Holders(s, kind, name) = {} THEN None
    ELSE Some(s[Least(Holders(s, kind, name))][kind][name])
Project(s, kind) == [i \in 1..Len(s) |-> s[i][kind]]

LookupIsInnermost(s) ==
    \A n \in Names :
        /\ get_variable(s, n) = InnermostBinding(s, "variables", n)
        /\ get_function(s, n) = InnermostBinding(s, "functions", n)
        /\ get_type(s, n) = InnermostBinding(s, "types", n)

ExitUncoversOuter ==
    (op' = "scope_exit" /\ ~panicked') =>
        \A n \in Names :
            /\ get_variable(scopes', n) = InnermostBinding(Tail(scopes), "variables", n)
            /\ get_function(scopes', n) = InnermostBinding(Tail(scopes), "functions", n)
            /\ get_type(scopes', n) = InnermostBinding(Tail(scopes), "types", n)

\* C1: get_variable, get_function and get_type return the binding held by the
\* innermost live scope that holds the name and None when no live scope holds
\* it; after scope_exit the binding of the next scope outwards is returned
\* again.
C1_InnermostLookup == [](LookupIsInnermost(scopes)) /\ [][ExitUncoversOuter]_vars

\* A name bound to different values in the innermost scope and in the one
\* around it; the lookup returns the inner one.
C1_Witness ==
    /\ Len(scopes) >= 2
    /\ "a" \in DOMAIN scopes[1].variables
    /\ "a" \in DOMAIN scopes[2].variables
    /\ scopes[1].variables["a"] # scopes[2].variables["a"]
    /\ get_variable(scopes, "a") = Some(scopes[1].variables["a"])

\* C2: add_variable leaves every outer scope as it was, and after scope_exit a
\* variable of the exited scope is returned by get_variable only when an outer
\* scope binds its name.
C2_AddVariableIsLocal ==
    [][ /\ op' = "add_variable" =>
            /\ Len(scopes') = Len(scopes)
            /\ \A i \in 2..Len(scopes) : scopes'[i] = scopes[i]
        /\ (op' = "scope_exit" /\ ~panicked') =>
            \A n \in DOMAIN scopes[1].variables :
                \/ get_variable(scopes', n) = None
                \/ \E i \in 2..Len(scopes) :
                       /\ n \in DOMAIN scopes[i].variables
                       /\ get_variable(scopes', n) = Some(scopes[i].variables[n])
      ]_vars

\* A variable was added to the innermost of two scopes.
C2_Witness ==
    /\ op = "add_variable"
    /\ ret = Ok
    /\ Len(scopes) >= 2
    /\ DOMAIN scopes[1].variables # {}
    /\ DOMAIN scopes[2].variables # {}

AddVariableContract(var) ==
    LET free == scopes # <<>> /\ var.name \notin DOMAIN scopes[1].variables
    IN  /\ (ret' = Ok) <=> free
        /\ free => scopes' = [scopes EXCEPT ![1].variables = MapInsert(@, var.name, var)]
        /\ ~free => ret'.tag = "Err" /\ ret'.kind = "Context" /\ scopes' = scopes

AddFunctionContract(func) ==
    LET free == scopes # <<>> /\ func.name \notin DOMAIN scopes[1].functions
    IN  /\ (ret' = Ok) <=> free
        /\ free => scopes' = [scopes EXCEPT ![1].functions = MapInsert(@, func.name, func)]
        /\ ~free => ret'.tag = "Err" /\ ret'.kind = "Context" /\ scopes' = scopes

AddTypeContract(type_dec) ==
    LET free == scopes # <<>> /\ type_dec.name \notin DOMAIN scopes[1].types
    IN  /\ (ret' = Ok) <=> free
        /\ free => scopes' = [scopes EXCEPT ![1].types = MapInsert(@, type_dec.name, type_dec)]
        /\ ~free => ret'.tag = "Err" /\ ret'.kind = "Context" /\ scopes' = scopes

\* C3: add_variable, add_function and add_type succeed exactly when there is a
\* live scope and the innermost scope's map of that kind does not hold the
\* name (an outer binding does not matter); otherwise they return a Context
\* error and the scope map is unchanged.
C3_AddSucceedsIffFree ==
    [][ /\ op' = "add_variable" =>
            \A var \in VarInputs : add_variable(var) => AddVariableContract(var)
        /\ op' = "add_function" =>
            \A func \in FuncInputs : add_function(func) => AddFunctionContract(func)
        /\ op' = "add_type" =>
            \A type_dec \in TypeInputs : add_type(type_dec) => AddTypeContract(type_dec)
      ]_vars

\* A refused redeclaration: the binding that was there is still there.
C3_Witness ==
    /\ op = "add_variable"
    /\ ret = Error("Context", "variable already declared", "a")
    /\ scopes # <<>>
    /\ "a" \in DOMAIN scopes[1].variables

\* C4: scope_exit with no live scope panics; with a live scope it removes
\* exactly the innermost one and returns normally.
C4_ExitPanicsWhenEmpty ==
    [][ op' = "scope_exit" =>
            IF scopes = <<>>
            THEN panicked' /\ ret' # Unit
            ELSE ~panicked' /\ ret' = Unit /\ scopes' = Tail(scopes)
      ]_vars

\* More exits than enters: the process has aborted.
C4_Witness ==
    /\ op = "scope_exit"
    /\ panicked
    /\ scopes = <<>>

RemoveVariableContract(var) ==
    LET held == scopes # <<>> /\ var.name \in DOMAIN scopes[1].variables
    IN  /\ held =>
            /\ ret' = Ok
            /\ scopes' = [scopes EXCEPT ![1].variables = MapRemove(@, var.name)]
            /\ get_variable(scopes', var.name) = InnermostBinding(Tail(scopes), "variables", var.name)
        /\ ~held => ret'.tag = "Err" /\ ret'.kind = "Context" /\ scopes' = scopes

\* C5: remove_variable removes the name from the innermost scope only, so that
\* an outer binding becomes visible again; when the innermost scope does not
\* hold the name it returns a Context error and changes nothing, also when an
\* outer scope holds the name.
C5_RemoveInnermostOnly ==
    [][ op' = "remove_variable" =>
            \A var \in VarInputs : remove_variable(var) => RemoveVariableContract(var) ]_vars

\* The name is held by an outer scope only, and the removal was refused.
C5_Witness ==
    /\ op = "remove_variable"
    /\ ret = Error("Context", "variable does not exist", "a")
    /\ Len(scopes) >= 2
    /\ "a" \notin DOMAIN scopes[1].variables
    /\ "a" \in DOMAIN scopes[2].variables

\* C6: variables, functions and types are independent namespaces: a method of
\* one kind leaves the maps of the other two kinds unchanged, and an addition
\* succeeds whenever the innermost map of its own kind lacks the name, whatever
\* the other two maps hold.
C6_IndependentNamespaces ==
    [][ /\ op' \in {"add_variable", "remove_variable"} =>
            /\ Project(scopes', "functions") = Project(scopes, "functions")
            /\ Project(scopes', "types") = Project(scopes, "types")
        /\ op' = "add_function" =>
            /\ Project(scopes', "variables") = Project(scopes, "variables")
            /\ Project(scopes', "types") = Project(scopes, "types")
        /\ op' = "add_type" =>
            /\ Project(scopes', "variables") = Project(scopes, "variables")
            /\ Project(scopes', "functions") = Project(scopes, "functions")
        /\ (op' = "add_variable" /\ scopes # <<>>) =>
            \A var \in VarInputs :
                (add_variable(var) /\ var.name \notin DOMAIN scopes[1].variables) => ret' = Ok
        /\ (op' = "add_function" /\ scopes # <<>>) =>
            \A func \in FuncInputs :
                (add_function(func) /\ func.name \notin DOMAIN scopes[1].functions) => ret' = Ok
        /\ (op' = "add_type" /\ scopes # <<>>) =>
            \A type_dec \in TypeInputs :
                (add_type(type_dec) /\ type_dec.name \notin DOMAIN scopes[1].types) => ret' = Ok
        /\ (op' = "remove_variable" /\ scopes # <<>>) =>
            \A var \in VarInputs :
                (remove_variable(var) /\ var.name \in DOMAIN scopes[1].variables) => ret' = Ok
      ]_vars

\* One scope binds the same spelling as a variable, a function and a type.
C6_Witness ==
    /\ scopes # <<>>
    /\ "a" \in DOMAIN scopes[1].variables
    /\ "a" \in DOMAIN scopes[1].functions
    /\ "a" \in DOMAIN scopes[1].types
    /\ ret = Ok

(***************************************************************************)
(* Properties of type instantiation and field access.                      *)
(***************************************************************************)
\* The instance the k-th field expression of ti produces in the context the
\* step starts from.
FieldValue(ti, k) == execute_expression(Here, ti.fields[k].value)[2].v

RECURSIVE SumSizes(_, _)
SumSizes(ti, k) == IF k = 0 THEN 0 ELSE SumSizes(ti, k - 1) + FieldValue(ti, k).size

RECURSIVE ConcatData(_, _)
ConcatData(ti, k) == IF k = 0 THEN <<>> ELSE ConcatData(ti, k - 1) \o FieldValue(ti, k).data

LayoutAsClaimed(ti, inst) ==
    /\ inst.ty = InnermostBinding(scopes, "types", ti.type_name).v
    /\ inst.size = SumSizes(ti, Len(ti.fields))
    /\ inst.data = ConcatData(ti, Len(ti.fields))
    /\ inst.fields # None
    /\ \A k \in 1..Len(ti.fields) :
        /\ ti.fields[k].symbol \in DOMAIN inst.fields.v
        /\ inst.fields.v[ti.fields[k].symbol] = <<SumSizes(ti, k - 1), FieldValue(ti, k).size>>

\* C7: an instantiation of a declared type whose field expressions all
\* evaluate returns an instance typed T, of the summed size, holding the
\* concatenated bytes, whose field map gives the k-th field name the pair
\* (sum of the sizes of the fields before it, size of the k-th field).
C7_InstanceLayout ==
    [][ (op' = "type_instantiation" /\ ret' # None) => LayoutAsClaimed(instr', ret'.v) ]_vars

DistinctSymbols(ti) ==
    \A j, k \in 1..Len(ti.fields) : ti.fields[j].symbol = ti.fields[k].symbol => j = k

\* The layout of C7 for the instantiations that name no field twice.
InstanceLayoutDistinct ==
    [][ (op' = "type_instantiation" /\ ret' # None /\ DistinctSymbols(instr'))
            => LayoutAsClaimed(instr', ret'.v) ]_vars

\* The receiver's instantiation, when the accessed record comes from one:
\* written in the access itself, or the one that was bound to the variable.
Instantiated(fa) ==
    IF fa.instance.kind = "type_inst" THEN fa.instance
    ELSE IF fa.instance.kind = "var" /\ origin # NoInstr /\ origin.value.kind = "type_inst"
         THEN origin.value
         ELSE NoInstr

RoundTrip(fa, result) ==
    LET ti == Instantiated(fa)
    IN  \A k \in 1..Len(ti.fields) :
            ti.fields[k].symbol = fa.field_name =>
                /\ result # None
                /\ result.v.data = FieldValue(ti, k).data

\* The record was instantiated: the access reached get_field.
ReceiverInstantiated(fa, tr) ==
    /\ Instantiated(fa) # NoInstr
    /\ \E j \in 1..Len(tr) : tr[j].ev = "get_field"

\* C8: an access to field n of an instantiated record, written on the
\* instantiation or on a variable bound to it, returns the bytes that the
\* field expression for n produced.
C8_FieldRoundTrip ==
    [][ (op' = "field_access" /\ ReceiverInstantiated(instr', trace'))
            => RoundTrip(instr', ret') ]_vars

\* The round trip of C8 for the instantiations that name no field twice.
FieldRoundTripDistinct ==
    [][ (op' = "field_access" /\ ReceiverInstantiated(instr', trace')
            /\ DistinctSymbols(Instantiated(instr')))
            => RoundTrip(instr', ret') ]_vars

PrimitiveError(name) == Error("Interpreter", "cannot instantiate primitive type", name)

\* C9: instantiating int, float, bool, char or string returns None and
\* appends the Interpreter error "cannot instantiate primitive type" naming
\* the type, whatever the scope map holds and whatever fields are written,
\* and evaluates no field expression.
C9_PrimitiveRejected ==
    [][ (op' = "type_instantiation"
            /\ instr'.type_name \in {"int", "float", "bool", "char", "string"}) =>
            /\ ret' = None
            /\ errors' = Append(errors, PrimitiveError(instr'.type_name))
            /\ \A j \in 1..Len(trace') : trace'[j].ev # "field"
            /\ scopes' = scopes
      ]_vars

\* A type named int is declared with one field and one field is written:
\* the instantiation is refused all the same.
C9_Witness ==
    /\ op = "type_instantiation"
    /\ instr.type_name = "int"
    /\ Len(instr.fields) = 1
    /\ "int" \in DOMAIN scopes[1].types
    /\ Len(scopes[1].types["int"].fields) = 1
    /\ ret = None
    /\ errors = <<PrimitiveError("int")>>

\* C10: an instantiation of a declared type returns an instance only when
\* as many fields are written as the type declares; for any other number it
\* returns None and appends an Interpreter error stating the expected and the
\* received number.
C10_FieldCount ==
    [][ (op' = "type_instantiation"
            /\ instr'.type_name \notin {"int", "float", "bool", "char", "string"}
            /\ InnermostBinding(scopes, "types", instr'.type_name) # None) =>
            LET declared == Len(InnermostBinding(scopes, "types", instr'.type_name).v.fields)
                written == Len(instr'.fields)
            IN  /\ ret' # None => written = declared
                /\ written # declared =>
                    /\ ret' = None
                    /\ errors' = Append(errors, CountError(instr'.type_name, declared, written))
      ]_vars

\* One field written for a type that declares two.
C10_Witness ==
    /\ op = "type_instantiation"
    /\ instr.type_name = "T"
    /\ Len(instr.fields) = 1
    /\ "T" \in DOMAIN scopes[1].types
    /\ Len(scopes[1].types["T"].fields) = 2
    /\ ret = None
    /\ errors = <<CountError("T", 2, 1)>>

(***************************************************************************)
(* Order of the checks of TypeInstantiation.execute.                       *)
(***************************************************************************)
Events(tr) == [j \in 1..Len(tr) |-> tr[j].ev]
IsPrefix(p, q) == Len(p) <= Len(q) /\ SubSeq(q, 1, Len(p)) = p
TypeNotFound(name) == Error("Interpreter", "Cannot find type", name)
Declared(s, name) == InnermostBinding(s, "types", name)

\* C11: TypeInstantiation.execute checks in a fixed order: the primitive
\* name, then the type lookup (failure: "Cannot find type T"), then the
\* field count.  The first check that fails appends exactly one error and
\* returns None; no later check runs and no field expression is evaluated.
C11_CheckOrder ==
    [][ op' = "type_instantiation" =>
            LET name == instr'.type_name
                dec == Declared(scopes, name)
            IN  IF name \in {"int", "float", "bool", "char", "string"}
                THEN /\ Events(trace') = <<"check_primitive">>
                     /\ errors' = Append(errors, PrimitiveError(name))
                     /\ ret' = None
                ELSE IF dec = None
                THEN /\ Events(trace') = <<"check_primitive", "get_declaration">>
                     /\ errors' = Append(errors, TypeNotFound(name))
                     /\ ret' = None
                ELSE IF Len(instr'.fields) # Len(dec.v.fields)
                THEN /\ Events(trace')
                            = <<"check_primitive", "get_declaration", "check_fields_count">>
                     /\ errors' = Append(errors,
                            CountError(name, Len(dec.v.fields), Len(instr'.fields)))
                     /\ ret' = None
                ELSE IsPrefix(<<"check_primitive", "get_declaration", "check_fields_count">>,
                              Events(trace'))
      ]_vars

\* T is not declared and two fields are written: the lookup fails after the
\* primitive check, and neither the count check nor a field expression runs.
C11_Witness ==
    /\ op = "type_instantiation"
    /\ instr.type_name = "T"
    /\ Len(instr.fields) = 2
    /\ Declared(scopes, "T") = None
    /\ Events(trace) = <<"check_primitive", "get_declaration">>
    /\ ret = None
    /\ errors = <<TypeNotFound("T")>>

(***************************************************************************)
(* FieldAccess on a receiver without a value, and on a missing field.      *)
(***************************************************************************)
\* What evaluating the receiver alone does in the current context.
Receiver(fa) == Execute(Here, fa.instance)
StatementError(printed) == Error("Context", "is a statement and cannot be accessed", printed)

\* C12: when the receiver of a FieldAccess produces no instance (a call of
\* a function without a return value, or an expression whose evaluation
\* failed), the access returns None, appends the Context error "instance X
\* is a statement and cannot be accessed" with X the printed receiver, and
\* does not attempt get_field.
C12_StatementReceiver ==
    [][ (op' = "field_access" /\ Receiver(instr')[2] = None) =>
            /\ ret' = None
            /\ errors' = Append(Receiver(instr')[1].errors,
                                StatementError(PrintInstruction(instr'.instance)))
            /\ IsPrefix(errors, errors')
            /\ \A j \in 1..Len(trace') : trace'[j].ev # "get_field"
            /\ scopes' = scopes
      ]_vars

\* void().a: the receiver is a statement; the error names it as printed.
C12_Witness ==
    /\ op = "field_access"
    /\ instr.instance = VoidCall("void")
    /\ ret = None
    /\ errors = <<StatementError("void()")>>
    /\ Events(trace) = <<"receiver">>

\* T { .. }.a with T undeclared: the failed evaluation leaves its own error,
\* and the access adds the statement error after it.
FailedReceiverReached ==
    /\ op = "field_access"
    /\ instr.instance.kind = "type_inst"
    /\ ret = None
    /\ Len(errors) = 2
    /\ errors[1] = TypeNotFound("T")
    /\ errors[2].msg = "is a statement and cannot be accessed"

\* The instance has a field of that name in its field map.
HasField(instance, field_name) ==
    /\ instance.fields # None
    /\ field_name \in DOMAIN instance.fields.v

\* The type of the instance declares a field of that name.
DeclaresField(instance, field_name) ==
    /\ "fields" \in DOMAIN instance.ty
    /\ \E k \in 1..Len(instance.ty.fields) : instance.ty.fields[k].name = field_name

MissingFieldFails ==
    (op' = "field_access" /\ Receiver(instr')[2] # None
        /\ ~HasField(Receiver(instr')[2].v, instr'.field_name)) =>
            /\ ret' = None
            /\ Len(errors') > Len(errors)
            /\ IsPrefix(errors, errors')
            /\ errors'[Len(errors')].kind = "Context"

\* C13: a FieldAccess on an instance that has no field of the requested
\* name (a record whose field map lacks it, or a primitive value without a
\* field map) returns None and leaves at least one error; an instance is
\* never returned for a field that the receiver's type does not declare.
C13_MissingField ==
    [][ /\ MissingFieldFails
        /\ (op' = "field_access" /\ Receiver(instr')[2] # None /\ ret' # None)
                => DeclaresField(Receiver(instr')[2].v, instr'.field_name)
      ]_vars

\* The part of C13 about the instance's own field map: a name that the map
\* lacks yields None and an error, and only a name in the map an instance.
MissingFieldOnInstance ==
    [][ /\ MissingFieldFails
        /\ (op' = "field_access" /\ Receiver(instr')[2] # None /\ ret' # None)
                => HasField(Receiver(instr')[2].v, instr'.field_name)
      ]_vars

\* T { a = .. }.b for T(a: int): the record has no field b.
MissingFieldReached ==
    /\ op = "field_access"
    /\ instr.instance.kind = "type_inst"
    /\ Len(instr.instance.fields) = 1
    /\ instr.instance.fields[1].symbol = "a"
    /\ instr.field_name = "b"
    /\ Events(trace)[Len(trace)] = "get_field"
    /\ ret = None
    /\ errors = <<Error("Context", "field does not exist on instance", "b")>>

\* b.a with b = 1: a primitive value has no field map.
PrimitiveReceiverReached ==
    /\ op = "field_access"
    /\ instr.instance = VarLookup("b")
    /\ origin = VarAssign("b", IntConst(1))
    /\ Events(trace)[Len(trace)] = "get_field"
    /\ ret = None
    /\ errors = <<Error("Context", "no fields on instance", instr.field_name)>>

(***************************************************************************)
(* VarOrEmptyType: the type is preferred to the variable.                  *)
(***************************************************************************)
Bound(s, name) == InnermostBinding(s, "variables", name)
Outcome(r) == <<r[1].scopes, r[1].errors, r[2]>>

ResolveKindPrecedence ==
    \A symbol \in Symbols :
        resolve_kind(scopes, symbol) =
            IF Declared(scopes, symbol) # None THEN "EmptyTypeInst"
            ELSE IF Bound(scopes, symbol) # None THEN "VarAccess"
            ELSE "Unknown"

\* C20: VarOrEmptyType.execute on a symbol s behaves as the instantiation
\* of s with no field whenever a type named s is visible, also when a
\* variable named s is visible too (so it fails with the field-count error
\* when that type declares a field), and as the lookup of the variable s
\* otherwise; resolve_kind has the same precedence: the type, then the
\* variable, else Unknown.
C20_TypeBeforeVariable ==
    /\ []ResolveKindPrecedence
    /\ [][ op' = "var_or_empty_type" =>
              LET s == instr'.symbol
                  dec == Declared(scopes, s)
              IN  /\ dec # None =>
                        /\ <<scopes', errors', ret'>>
                              = Outcome(ExecuteTypeInstantiation(Here, TypeInstantiation(s, <<>>)))
                        /\ (s \notin PrimitiveNames /\ Len(dec.v.fields) > 0) =>
                              /\ ret' = None
                              /\ errors' = Append(errors, CountError(s, Len(dec.v.fields), 0))
                        /\ (s \notin PrimitiveNames /\ Len(dec.v.fields) = 0) =>
                              /\ ret' = Some(ObjectInstance(dec.v, 0, <<>>, Some(EmptyMap)))
                              /\ errors' = errors
                  /\ dec = None =>
                        /\ <<scopes', errors', ret'>> = Outcome(ExecuteVar(Here, VarLookup(s)))
                        /\ Bound(scopes, s) # None =>
                              ret' = Some(Bound(scopes, s).v.instance) /\ errors' = errors
                        /\ Bound(scopes, s) = None =>
                              ret' = None /\ Len(errors') = Len(errors) + 1
         ]_vars

\* A type T with two fields and a variable T are both visible: the bare T
\* is the instantiation and fails on the field count.
C20_Witness ==
    /\ op = "var_or_empty_type"
    /\ instr.symbol = "T"
    /\ Declared(scopes, "T") # None
    /\ Len(Declared(scopes, "T").v.fields) = 2
    /\ Bound(scopes, "T") # None
    /\ resolve_kind(scopes, "T") = "EmptyTypeInst"
    /\ ret = None
    /\ errors = <<CountError("T", 2, 0)>>

\* The bare T with an empty type T and a variable T: an empty record.
EmptyRecordReached ==
    /\ op = "var_or_empty_type"
    /\ Bound(scopes, "T") # None
    /\ ret # None
    /\ ret.v.fields = Some(EmptyMap)

\* The bare b with no type b in sight: the value of the variable.
VariableReached ==
    /\ op = "var_or_empty_type"
    /\ instr.symbol = "b"
    /\ ret = Some(JkInt(1))

(***************************************************************************)
(* Include: which file is chosen.                                          *)
(***************************************************************************)
\* The directory an include resolves against, and its two candidates.
Base == IF path = None THEN <<>> ELSE Parent(path.v)
DirCandidate(incl) == Base \o <<incl.path, "lib.jk">>
FileCandidate(incl) == Base \o <<incl.path \o ".jk">>
Exists(p) == p \in DOMAIN files

ResolutionError(e) ==
    /\ e.tag = "Err"
    /\ e.kind = "Interpreter"
    /\ e.msg \in {"invalid include", "no candidate for include"}

DirectoryChosen ==
    /\ op = "incl"
    /\ instr = Incl("m")
    /\ <<"m.jk">> \notin DOMAIN files
    /\ ret = Ok
    /\ trace[1] = FinalPath(<<"m", "lib.jk">>)

\* incl m with neither file present.
NoCandidateReached ==
    /\ op = "incl"
    /\ instr = Incl("m")
    /\ path = Some(<<"main.jk">>)
    /\ ret.tag = "Err"
    /\ ret.msg = "no candidate for include"
    /\ ret.dir_candidate = <<"m", "lib.jk">>
    /\ ret.file_candidate = <<"m.jk">>

(***************************************************************************)
(* Include: the current source path.                                       *)
(***************************************************************************)
\* C15: for every execution of an include, nested includes and executions
\* in which an included instruction fails among them, the current source
\* path when execute returns equals its value when execute was entered.
C15_PathRestored ==
    [][ op' = "incl" => path' = path ]_vars

\* The path is the one at entry whenever the include returns Ok, nested
\* includes among them, and whenever it fails before it runs an instruction
\* of the chosen file.
PathRestoredOnSuccess ==
    [][ (op' = "incl" /\ (ret' = Ok \/ FilesRun(trace') = {})) => path' = path ]_vars

\* An instruction of the included file failed: the path is still the
\* included file's.
PathLeftBehind ==
    /\ op = "incl"
    /\ instr = Incl("m")
    /\ ret = Error("Interpreter", "variable has not been declared", "x")
    /\ path = Some(<<"m.jk">>)

\* A nested include ran to its end and both paths were put back.
NestedRestored ==
    /\ op = "incl"
    /\ instr = Incl("m")
    /\ ret = Ok
    /\ path = Some(<<"main.jk">>)
    /\ FilesRun(trace) = {<<"m", "lib.jk">>, <<"m", "n.jk">>}

(***************************************************************************)
(* Include: the order in which the instructions of a file run.             *)
(***************************************************************************)
IsTypeDec(i) == "kind" \notin DOMAIN i
IsIncluding(e, p) == e.ev = "INCLUDING" /\ e.path = Some(p)
\* The instructions the trace shows running with p as the current path.
RunAt(tr, p) ==
    LET sel == SelectSeq(tr, LAMBDA e : IsIncluding(e, p))
    IN  [j \in 1..Len(sel) |-> sel[j].instr]
Chosen(tr) == tr[1].path
Loaded(tr) ==
    /\ tr # <<>>
    /\ tr[1].ev = "FINAL PATH"
    /\ files[Chosen(tr)].kind = "source"
TypesOf(s) == UNION {DOMAIN s[j].types : j \in 1..Len(s)}

\* A nested include at position j of the trace resolves against the
\* directory of the file that holds it.
NestedResolution(tr, result, j) ==
    LET dir == Parent(tr[j].path.v) \o <<tr[j].instr.path, "lib.jk">>
        file == Parent(tr[j].path.v) \o <<tr[j].instr.path \o ".jk">>
    IN  IF Exists(dir) # Exists(file)
        THEN /\ j < Len(tr)
             /\ tr[j + 1] = FinalPath(IF Exists(dir) THEN dir ELSE file)
        ELSE /\ j = Len(tr)
             /\ ResolutionError(result)
             /\ result.dir_candidate = dir
             /\ result.file_candidate = file

\* An instruction that fails whatever ran before it in this include: the
\* lookup of a variable that is not bound, the declaration of a type that
\* is declared already.
MustFail(i, s) ==
    \/ ~IsTypeDec(i) /\ i.kind = "var" /\ get_variable(s, i.name) = None
    \/ IsTypeDec(i) /\ i.name \in TypesOf(s)

\* C16: an include executes the parsed top-level instructions of the chosen
\* file one at a time in file order, with the current path set to the chosen
\* file (a nested include resolves against the included file's directory);
\* when an instruction fails, no later instruction of that file is executed
\* and the include reports the failure.
C16_FileOrder ==
    [][ (op' = "incl" /\ Loaded(trace')) =>
            LET f == Chosen(trace')
                content == files[f].instructions
                ran == RunAt(trace', f)
            IN  /\ Len(ran) >= 1
                /\ IsPrefix(ran, content)
                /\ ret' = Ok => ran = content
                /\ ret' # Ok => ret'.tag = "Err"
                /\ \A k \in 1..Len(ran) :
                      MustFail(ran[k], scopes) =>
                          /\ k = Len(ran)
                          /\ ret'.tag = "Err"
                          /\ ret'.name = ran[k].name
                /\ \A j \in 1..Len(trace') :
                      trace'[j].ev = "INCLUDING" =>
                          /\ trace'[j].path # None
                          /\ (~IsTypeDec(trace'[j].instr) /\ trace'[j].instr.kind = "incl")
                                => NestedResolution(trace', ret', j)
                /\ TypesOf(scopes') =
                      TypesOf(scopes) \cup
                          {trace'[j].instr.name :
                              j \in {i \in 1..Len(trace') :
                                        /\ trace'[i].ev = "INCLUDING"
                                        /\ IsTypeDec(trace'[i].instr)}}
      ]_vars

\* m.jk holds `type T(); x; type U();`: T is declared, x fails, and the
\* declaration of U is never executed.
C16_Witness ==
    /\ op = "incl"
    /\ instr = Incl("m")
    /\ Loaded(trace)
    /\ Chosen(trace) = <<"m.jk">>
    /\ Len(files[<<"m.jk">>].instructions) = 3
    /\ RunAt(trace, <<"m.jk">>) = <<TypeDec("T", <<>>), VarLookup("x")>>
    /\ ret = Error("Interpreter", "variable has not been declared", "x")
    /\ TypesOf(scopes) = {"T"}

\* m/lib.jk holds `incl n; type T();`: n is m/n.jk, beside the included
\* file, although n.jk exists beside the includer.
NestedBesideIncluded ==
    /\ op = "incl"
    /\ instr = Incl("m")
    /\ ret = Ok
    /\ <<"n.jk">> \in DOMAIN files
    /\ Len(trace) = 5
    /\ trace[1] = FinalPath(<<"m", "lib.jk">>)
    /\ trace[2] = Including(Incl("n"), Some(<<"m", "lib.jk">>))
    /\ trace[3] = FinalPath(<<"m", "n.jk">>)
    /\ trace[4] = Including(TypeDec("U", <<>>), Some(<<"m", "n.jk">>))
    /\ trace[5] = Including(TypeDec("T", <<>>), Some(<<"m", "lib.jk">>))

(***************************************************************************)
(* Include: no record of the files included so far.                        *)
(***************************************************************************)
\* C17: including the same file twice from the same context executes its
\* instructions twice: nothing records the files already included, so the
\* second include runs every instruction again, up to the first one that
\* fails (a redeclaration, for one).
C17_IncludedAgain ==
    [][ (op' = "incl" /\ Loaded(trace') /\ Chosen(trace') \in included) =>
            LET f == Chosen(trace')
                content == files[f].instructions
                ran == RunAt(trace', f)
            IN  /\ Len(ran) >= 1
                /\ IsPrefix(ran, content)
                /\ \A k \in 1..(Len(ran) - 1) : ~MustFail(ran[k], scopes)
                /\ Len(ran) < Len(content) => ret'.tag = "Err"
                /\ ret' = Ok => ran = content
      ]_vars

\* m.jk holds `type T(); type U();` and is included for the second time:
\* the declaration of T runs again and fails as a redeclaration.
C17_Witness ==
    /\ op = "incl"
    /\ instr = Incl("m")
    /\ <<"m.jk">> \in included
    /\ TypesOf(scopes) = {"T", "U"}
    /\ files[<<"m.jk">>] = Source(<<TypeDec("T", <<>>), TypeDec("U", <<>>)>>)
    /\ trace = <<FinalPath(<<"m.jk">>), Including(TypeDec("T", <<>>), Some(<<"m.jk">>))>>
    /\ ret.tag = "Err"
    /\ ret.name = "T"

(***************************************************************************)
(* Interpreter directives.                                                 *)
(***************************************************************************)
KindNamed(name) ==
    CASE name = "dump" -> "Dump"
      [] name = "quit" -> "Quit"
      [] name = "ir" -> "Ir"
      [] name = "error" -> "Error"

\* C18: from_function_call returns a directive exactly when the name of the
\* call is one of dump, quit, ir and error, of the kind of that name and
\* with the arguments of the call, whether there are arguments or not; for
\* every other name it returns a Parsing error and no directive.
C18_DirectiveNames ==
    [][ op' = "from_function_call" =>
            IF instr'.fn_name \in {"dump", "quit", "ir", "error"}
            THEN /\ ret'.tag = "Ok"
                 /\ ret'.v.kind = "jk_inst"
                 /\ ret'.v.inst = KindNamed(instr'.fn_name)
                 /\ ret'.v.args = instr'.args
            ELSE /\ ret'.tag = "Err"
                 /\ ret'.kind = "Parsing"
                 /\ ret'.name = instr'.fn_name
      ]_vars

\* @tamer(1): no directive of that name.
C18_Witness ==
    /\ op = "from_function_call"
    /\ instr = FunctionCall("tamer", <<IntConst(1)>>)
    /\ ret = Error("Parsing", "unknown interpreter directive @tamer", "tamer")

\* @ir(b): a directive with an argument.
DirectiveWithArgument ==
    /\ op = "from_function_call"
    /\ instr = FunctionCall("ir", <<VarLookup("b")>>)
    /\ ret = OkOf(JkInst("Ir", <<VarLookup("b")>>))

\* The lines the trace shows written on the diagnostic stream.
Diagnostics(tr) ==
    LET sel == SelectSeq(tr, LAMBDA e : e.ev = "eprintln")
    IN  [j \in 1..Len(sel) |-> sel[j].text]
Printed(args) == [j \in 1..Len(args) |-> PrintInstruction(args[j])]
\* Nothing was evaluated: no binding, no error, and no step but the
\* directive's own debug line and its output.
NothingExecuted ==
    /\ scopes' = scopes
    /\ errors' = errors
    /\ \A j \in 1..Len(trace') : trace'[j].ev \in {"JINKO_INST", "println", "eprintln"}
ExitsWith(status) == exit_status' = Some(status) /\ ret' = Exited

\* C19: executing a quit directive ends the process with exit status 0 and
\* executing an error directive ends it with exit status 1; in both cases
\* no instruction that follows the directive is ever executed, and the
\* arguments of the directive are printed but never executed.
C19_ExitAndArguments ==
    [][ /\ exit_status = None
        /\ (op' = "jk_inst" /\ instr'.inst = "Quit") => ExitsWith(0)
        /\ (op' = "jk_inst" /\ instr'.inst = "Error") => ExitsWith(1)
        /\ (op' = "jk_inst" /\ instr'.inst \in {"Quit", "Error"}) =>
                /\ Diagnostics(trace') = Printed(instr'.args)
                /\ NothingExecuted
      ]_vars

\* C19, amended: quit ends the process with exit status 0 and error with
\* exit status 1, and no instruction that follows is ever executed; error
\* prints each of its arguments, in order, on the diagnostic stream, quit
\* prints nothing, and neither executes an argument.
C19_ExitErrorPrints ==
    [][ /\ exit_status = None
        /\ (op' = "jk_inst" /\ instr'.inst = "Quit") =>
                /\ ExitsWith(0)
                /\ Diagnostics(trace') = <<>>
                /\ NothingExecuted
        /\ (op' = "jk_inst" /\ instr'.inst = "Error") =>
                /\ ExitsWith(1)
                /\ Diagnostics(trace') = Printed(instr'.args)
                /\ NothingExecuted
      ]_vars

\* @error(b, void()) with b unbound: both arguments are printed, the
\* process has exited with status 1 and no error was recorded.
C19_Witness ==
    /\ op = "jk_inst"
    /\ instr = JkInst("Error", <<VarLookup("b"), VoidCall("void")>>)
    /\ exit_status = Some(1)
    /\ Diagnostics(trace) = <<"b", "void()">>
    /\ errors = <<>>
    /\ get_variable(scopes, "b") = None
    /\ \A fc \in FunctionCalls : ~ENABLED jk_inst_from_function_call(fc)
    /\ \A type_dec \in Declarations : ~ENABLED type_dec_execute(type_dec)

\* @quit(1): the process has exited with status 0 and printed nothing.
QuitWithArgument ==
    /\ op = "jk_inst"
    /\ instr = JkInst("Quit", <<IntConst(1)>>)
    /\ exit_status = Some(0)
    /\ Diagnostics(trace) = <<>>

(***************************************************************************)
(* None means an error: TypeInstantiation and FieldAccess.                 *)
(***************************************************************************)
ReturnsNone == op' \in {"type_instantiation", "field_access"} /\ ret' = None
ErrorAdded == Len(errors') > Len(errors) /\ IsPrefix(errors, errors')

HasStatementField(i) ==
    /\ i.kind = "type_inst"
    /\ \E k \in 1..Len(i.fields) : i.fields[k].value.kind = "call"

\* C21 holds for every FieldAccess, and for every TypeInstantiation that
\* writes no statement as a field expression.
NoneMeansErrorForExpressions ==
    [][ /\ op' \in {"type_instantiation", "field_access"} => IsPrefix(errors, errors')
        /\ (ReturnsNone /\ ~HasStatementField(instr')) => ErrorAdded
      ]_vars

\* T { a = void() } for T(a: int): None, and the buffer is still empty.
SilentNone ==
    /\ op = "type_instantiation"
    /\ instr = TypeInstantiation("T", <<VarAssign("a", VoidCall("void"))>>)
    /\ Events(trace) = <<"check_primitive", "get_declaration", "check_fields_count", "field">>
    /\ ret = None
    /\ errors = <<>>

(***************************************************************************)
(* The field map of a returned instance against the declaration.           *)
(***************************************************************************)
Instance == ret'.v
ReturnsInstance == op' = "type_instantiation" /\ ret' # None
DeclaredFields == Declared(scopes, instr'.type_name).v.fields

\* The entries of the map, taken by offset, are the declared fields in
\* their declared order.
MapAsDeclared(map, fields) ==
    /\ DOMAIN map = {fields[k].name : k \in 1..Len(fields)}
    /\ Len(fields) > 0 => map[fields[1].name][1] = 0
    /\ \A k \in 1..(Len(fields) - 1) :
            map[fields[k].name][1] + map[fields[k].name][2] = map[fields[k + 1].name][1]

\* C22: for every instance that TypeInstantiation.execute returns for a
\* declared type T, the order and the names of the entries of its field
\* map are those of T's declared fields (the k-th entry is T's k-th
\* declared field), for any order and any names of the written field
\* assignments.
C22_FieldMapAsDeclared ==
    [][ ReturnsInstance => MapAsDeclared(Instance.fields.v, DeclaredFields) ]_vars

WrittenAsDeclared(ti, fields) ==
    \A k \in 1..Len(ti.fields) : ti.fields[k].symbol = fields[k].name

\* The field map is as declared when the assignments are written with the
\* declared names in the declared order.
FieldMapWhenWrittenAsDeclared ==
    [][ (ReturnsInstance /\ WrittenAsDeclared(instr', DeclaredFields))
            => MapAsDeclared(Instance.fields.v, DeclaredFields) ]_vars

\* T { b = "hi", a = 1 } for T(a: int, b: string): b comes first in the map.
WrittenOrderKept ==
    /\ op = "type_instantiation"
    /\ instr = TypeInstantiation("T", <<VarAssign("b", StringConst("hi")),
                                         VarAssign("a", IntConst(1))>>)
    /\ ret # None
    /\ ret.v.ty = TypeDec("T", <<DecArg("a", "int"), DecArg("b", "string")>>)
    /\ ret.v.fields.v["b"] = <<0, 2>>
    /\ ret.v.fields.v["a"] = <<2, 8>>

(***************************************************************************)
(* The invariants of a returned instance.                                  *)
(***************************************************************************)
Span(entry) == (entry[1] + 1)..(entry[1] + entry[2])

\* data.length == size; every entry lies within the data, no two entries
\* overlap, and the entries together cover all of it.
InstanceInvariants(instance) ==
    /\ Len(instance.data) = instance.size
    /\ instance.fields # None =>
          LET map == instance.fields.v
          IN  /\ \A n \in DOMAIN map : map[n][1] + map[n][2] <= instance.size
              /\ \A n, m \in DOMAIN map : n # m => Span(map[n]) \cap Span(map[m]) = {}
              /\ UNION {Span(map[n]) : n \in DOMAIN map} = 1..instance.size

\* C23: every instance returned by TypeInstantiation.execute satisfies the
\* instance invariants: the data is as long as the size says, every entry
\* (o, s) of the field map has o + s <= size, the entries do not overlap and
\* their spans cover exactly [0, size); also when the instantiation names
\* the same field twice.
C23_InstanceInvariants ==
    [][ ReturnsInstance => InstanceInvariants(Instance) ]_vars

\* The invariants hold for the instantiations that name no field twice.
InstanceInvariantsDistinct ==
    [][ (ReturnsInstance /\ DistinctSymbols(instr')) => InstanceInvariants(Instance) ]_vars

\* T { a = 1, a = "hi" } for T(a: int, b: string): ten bytes of data, and a
\* map whose single entry a covers the last two.
SpanUncovered ==
    /\ op = "type_instantiation"
    /\ instr = TypeInstantiation("T", <<VarAssign("a", IntConst(1)),
                                         VarAssign("a", StringConst("hi"))>>)
    /\ ret # None
    /\ ret.v.size = 10
    /\ Len(ret.v.data) = 10
    /\ DOMAIN ret.v.fields.v = {"a"}
    /\ ret.v.fields.v["a"] = <<8, 2>>

(***************************************************************************)
(* The order in which the field expressions are evaluated.                 *)
(***************************************************************************)
\* An expression that yields no instance in the scopes s: a statement, or
\* a variable that is not bound.
YieldsNothing(e, s) ==
    \/ e.kind = "call"
    \/ e.kind = "var" /\ Bound(s, e.name) = None
\* The first field assignment whose expression yields nothing; 0 if none.
FirstFailing(ti, s) ==
    LET failing == {k \in 1..Len(ti.fields) : YieldsNothing(ti.fields[k].value, s)}
    IN  IF failing = {} THEN 0 ELSE Least(failing)
ChecksPassed(ti, s) ==
    /\ ti.type_name \notin PrimitiveNames
    /\ Declared(s, ti.type_name) # None
    /\ Len(ti.fields) = Len(Declared(s, ti.type_name).v.fields)
\* The trace of an execute that passed the checks and evaluated the field
\* expressions 1..j, each once, in this order.
EvaluatedUpTo(j) ==
    <<Event("check_primitive"), Event("get_declaration"), Event("check_fields_count")>>
        \o [k \in 1..j |-> FieldEvent(k)]

\* C24: TypeInstantiation.execute evaluates its field expressions strictly
\* in source order, each at most once; when the k-th field expression
\* produces no instance, execute returns None at once: the field
\* expressions after the k-th are never evaluated and no partly built
\* instance is returned.
C24_FieldsInOrder ==
    [][ (op' = "type_instantiation" /\ ChecksPassed(instr', scopes)) =>
            LET k == FirstFailing(instr', scopes)
            IN  IF k = 0
                THEN /\ trace' = EvaluatedUpTo(Len(instr'.fields))
                     /\ ret' # None
                ELSE /\ trace' = EvaluatedUpTo(k)
                     /\ ret' = None
      ]_vars

\* T { a = void(), b = 1 } for T(a: int, b: string): the first field
\* expression yields nothing and the second is never evaluated.
C24_Witness ==
    /\ op = "type_instantiation"
    /\ instr = TypeInstantiation("T", <<VarAssign("a", VoidCall("void")),
                                         VarAssign("b", IntConst(1))>>)
    /\ Declared(scopes, "T") # None
    /\ Len(Declared(scopes, "T").v.fields) = 2
    /\ trace = EvaluatedUpTo(1)
    /\ ret = None

\* T { a = 1, b = b } with b unbound: both field expressions are
\* evaluated, the second fails.
SecondFieldFails ==
    /\ op = "type_instantiation"
    /\ instr = TypeInstantiation("T", <<VarAssign("a", IntConst(1)),
                                         VarAssign("b", VarLookup("b"))>>)
    /\ trace = EvaluatedUpTo(2)
    /\ ret = None
    /\ errors = <<Error("Context", "variable has not been declared", "b")>>

(***************************************************************************)
(* Instantiating again after clear_errors (test t_fields_number).           *)
(***************************************************************************)
has_errors == errors # <<>>

\* C25: starting from an error buffer emptied by clear_errors(), a
\* TypeInstantiation whose type is declared, whose field count matches the
\* declaration and whose field expressions all yield an instance returns an
\* instance and leaves has_errors() false: the errors of earlier failed
\* instantiations do not make the corrected instantiation fail.
C25_CorrectedInstantiation ==
    [][ ( /\ op' = "type_instantiation"
          /\ cleared
          /\ ~has_errors
          /\ ChecksPassed(instr', scopes)
          /\ FirstFailing(instr', scopes) = 0 ) =>
            /\ ret' # None
            /\ ~has_errors'
      ]_vars

\* An instantiation failed on its field count, clear_errors emptied the
\* buffer, and the instantiation with both fields of T(a: int, b: string)
\* returned an instance with no error recorded.
C25_Witness ==
    /\ op = "type_instantiation"
    /\ cleared
    /\ Len(instr.fields) = 2
    /\ ret # None
    /\ ~has_errors

(***************************************************************************)
(* The number of live scopes.                                               *)
(***************************************************************************)
LiveScopes == Len(scopes)
Additions == {"add_variable", "remove_variable", "add_function", "add_type"}

\* C27: in every reachable state of the ScopeMap the number of live scopes
\* equals the number of scope_enter calls minus the number of scope_exit
\* calls made so far, and is never negative; no add_variable,
\* remove_variable, add_function or add_type call changes the number of
\* live scopes (get_variable, get_function and get_type take &self and are
\* operators on the state, they have no step).
C27_LiveScopes ==
    /\ [](LiveScopes = balance /\ balance >= 0)
    /\ [][op' \in Additions => Len(scopes') = Len(scopes)]_vars

\* One more scope was entered than was left, and an addition ran in it.
C27_Witness ==
    /\ op = "add_variable"
    /\ ret = Ok
    /\ balance = 1
    /\ LiveScopes = 1

\* An addition ran with no live scope, after an enter and an exit.
AdditionWithoutScope ==
    /\ op \in Additions
    /\ LiveScopes = 0
    /\ balance = 0
    /\ ret # Ok

(***************************************************************************)
(* Include: failing before the target's instructions start.                 *)
(***************************************************************************)
\* The include finds no single candidate, or the candidate it finds cannot
\* be read or cannot be parsed.
FailsBeforeExecution(incl) ==
    LET dir == DirCandidate(incl)
        file == FileCandidate(incl)
        chosen == IF Exists(dir) THEN dir ELSE file
    IN  \/ Exists(dir) /\ Exists(file)
        \/ ~Exists(dir) /\ ~Exists(file)
        \/ /\ Exists(dir) # Exists(file)
           /\ files[chosen].kind \in {"unreadable", "unparsable"}
NoInstructionRun(tr) == \A j \in 1..Len(tr) : tr[j].ev # "INCLUDING"

\* C28: when an include fails before execution starts (no candidate, two
\* candidates, an unreadable file or an unparsable file), execute returns
\* the error with the current path unchanged and without having executed
\* any instruction of the target: the scope map is exactly as before.
C28_FailedLoad ==
    [][ (op' = "incl" /\ FailsBeforeExecution(instr')) =>
            /\ ret'.tag = "Err"
            /\ path' = path
            /\ NoInstructionRun(trace')
            /\ included' = included
            /\ scopes' = scopes
      ]_vars

\* incl m from main.jk with m.jk present and unparsable: the parse error is
\* returned, main.jk is still the current path and nothing was declared.
C28_Witness ==
    /\ op = "incl"
    /\ instr = Incl("m")
    /\ <<"m.jk">> \in DOMAIN files
    /\ <<"m", "lib.jk">> \notin DOMAIN files
    /\ files[<<"m.jk">>] = Unparsable
    /\ trace = <<FinalPath(<<"m.jk">>)>>
    /\ ret = Error("Parsing", "could not parse input", "")
    /\ path = Some(<<"main.jk">>)
    /\ scopes = <<ScopeNew>>

\* incl m with m/lib.jk present and unreadable.
UnreadableReached ==
    /\ op = "incl"
    /\ instr = Incl("m")
    /\ <<"m", "lib.jk">> \in DOMAIN files
    /\ files[<<"m", "lib.jk">>] = Unreadable
    /\ <<"m.jk">> \notin DOMAIN files
    /\ ret = Error("Interpreter", "stream did not contain valid UTF-8", <<"m", "lib.jk">>)
    /\ path = Some(<<"main.jk">>)

(***************************************************************************)
(* Token::identifier.  A text is a sequence of characters, each the code    *)
(* point of a Rust char; a byte is a number in 0..255.                      *)
(***************************************************************************)
Code ==
    [c |-> 99, e |-> 101, f |-> 102, h |-> 104, i |-> 105, k |-> 107, l |-> 108,
     m |-> 109, n |-> 110, o |-> 111, p |-> 112, r |-> 114, s |-> 115, t |-> 116,
     u |-> 117, w |-> 119, x |-> 120,
     nine |-> 57, underscore |-> 95, space |-> 32,
     less_equal |-> 8804]        \* U+2264

RESERVED_KEYWORDS ==
    {<<Code.f, Code.u, Code.n, Code.c>>, <<Code.t, Code.e, Code.s, Code.t>>,
     <<Code.m, Code.o, Code.c, Code.k>>, <<Code.e, Code.x, Code.t>>,
     <<Code.f, Code.o, Code.r>>, <<Code.w, Code.h, Code.i, Code.l, Code.e>>,
     <<Code.l, Code.o, Code.o, Code.p>>, <<Code.m, Code.u, Code.t>>}

\* `c as u8`: the cast keeps the low eight bits of the code point.
as_u8(c) == c % 256
\* nom::character::{is_digit, is_alphabetic, is_alphanumeric} on a byte.
is_digit(chr) == chr \in 48..57
is_alphabetic(chr) == chr \in 65..90 \/ chr \in 97..122
is_alphanumeric(chr) == is_alphabetic(chr) \/ is_digit(chr)

\* Results of a nom parser.
TokOk(rest, id) == [tag |-> "Ok", rest |-> rest, id |-> id]
TokErr(severity, msg, kind) ==
    [tag |-> "Err", severity |-> severity, msg |-> msg, kind |-> kind]

\* The closure handed to take_while1.
cond(c) == is_alphanumeric(as_u8(c)) \/ c = Code.underscore

\* take_while1(cond): the longest leading run of characters satisfying
\* cond and the rest, or an Error when the run is empty.
take_while1(s) ==
    LET n == CHOOSE n \in 0..Len(s) :
                 /\ \A j \in 1..n : cond(s[j])
                 /\ n = Len(s) \/ ~cond(s[n + 1])
    IN  IF n = 0 THEN TokErr("Error", "", "TakeWhile1")
        ELSE TokOk(SubSeq(s, n + 1, Len(s)), SubSeq(s, 1, n))

identifier(s) ==
    LET taken == take_while1(s)
        id == taken.id
    IN  IF taken.tag = "Err" THEN taken
        ELSE IF id \in RESERVED_KEYWORDS
             THEN TokErr("Failure", "Identifer cannot be keyword", "OneOf")
        ELSE IF \E j \in 1..Len(id) : is_alphabetic(as_u8(id[j]))
             THEN TokOk(taken.rest, id)
        ELSE TokErr("Failure", "Invalid identifier", "Eof")

\* The texts: the letters of func, a digit, the underscore, a space and
\* the sign U+2264, which is neither a letter nor a digit.
TextChars ==
    {Code.f, Code.u, Code.n, Code.c, Code.nine, Code.underscore, Code.space,
     Code.less_equal}
Texts(n) == SeqsUpTo(TextChars, n)

token_identifier ==
    /\ op = "idle"
    /\ op' = "identifier"
    /\ ret' = identifier(chars)
    /\ UNCHANGED <<scopes, panicked, errors, instr, trace, origin, path, files, included,
                   exit_status, cleared, balance, chars>>

InitTok ==
    /\ scopes = <<>>
    /\ op = "idle"
    /\ ret = Unit
    /\ panicked = FALSE
    /\ errors = <<>>
    /\ instr = NoInstr
    /\ trace = <<>>
    /\ origin = NoInstr
    /\ path = None
    /\ files = EmptyMap
    /\ included = {}
    /\ exit_status = None
    /\ cleared = FALSE
    /\ balance = 0
    /\ chars \in Texts(MaxLen)

NextTok == token_identifier

SpecTok == InitTok /\ [][NextTok]_vars

(***************************************************************************)
(* Token::identifier: what is accepted.                                     *)
(***************************************************************************)
\* The character classes of the statement: a letter, a digit.
Letter(c) == c \in 65..90 \/ c \in 97..122
Digit(c) == c \in 48..57
InRun(c) == Letter(c) \/ Digit(c) \/ c = Code.underscore
\* The longest leading run of alphanumeric-or-underscore characters.
RunLength(s) ==
    CHOOSE n \in 0..Len(s) :
        /\ \A j \in 1..n : InRun(s[j])
        /\ n = Len(s) \/ ~InRun(s[n + 1])
LeadingRun(s) == SubSeq(s, 1, RunLength(s))
Rest(s) == SubSeq(s, RunLength(s) + 1, Len(s))
Acceptable(s) ==
    /\ LeadingRun(s) # <<>>
    /\ \E j \in 1..RunLength(s) : Letter(s[j])
    /\ LeadingRun(s) \notin RESERVED_KEYWORDS
IdentifierAsStated(s, result) ==
    IF Acceptable(s) THEN result = TokOk(Rest(s), LeadingRun(s)) ELSE result.tag = "Err"

\* C26: Token::identifier accepts the longest leading run of
\* alphanumeric-or-underscore characters exactly when the run is not
\* empty, holds at least one alphabetic character and is not a reserved
\* keyword, and returns the run and the rest of the text; every other text
\* is rejected.
C26_Identifier ==
    op = "identifier" => IdentifierAsStated(chars, ret)

\* The statement holds for the texts whose characters are all bytes.
IdentifierOnBytes ==
    (op = "identifier" /\ \A j \in 1..Len(chars) : chars[j] < 256) =>
        IdentifierAsStated(chars, ret)

\* The text made of the sign U+2264 alone is accepted as an identifier.
SignAccepted ==
    /\ op = "identifier"
    /\ chars = <<Code.less_equal>>
    /\ ret = TokOk(<<>>, <<Code.less_equal>>)

\* func_ followed by a space and a letter: the run func_ is accepted.
KeywordPrefixAccepted ==
    /\ op = "identifier"
    /\ chars = <<Code.f, Code.u, Code.n, Code.c, Code.underscore>>
    /\ ret = TokOk(<<>>, chars)

\* func alone is rejected.
KeywordRejected ==
    /\ op = "identifier"
    /\ chars = <<Code.f, Code.u, Code.n, Code.c>>
    /\ ret = TokErr("Failure", "Identifer cannot be keyword", "OneOf")

====
